---------------------------- MODULE Spec2Model ----------------------------
(***************************************************************************)
(* A model of the coupon aggregation engine (src/src/coupon_engine):       *)
(*   - the deduplicator (deduplicator.rs),                                 *)
(*   - the validator (validator.rs),                                       *)
(*   - the proxy pool (proxy_manager.rs),                                  *)
(*   - the sliding-window rate limiter (rate_limiter.rs),                  *)
(*   - the batch orchestrator (mod.rs).                                    *)
(* Each subsystem has its own specification (SpecDedup, SpecSim, SpecVal,  *)
(* SpecPM, SpecBatch); the variables of the other subsystems stay at       *)
(* their idle values.                                                      *)
(*                                                                         *)
(* Conventions.                                                            *)
(*   Strings are sequences of characters; a character is a one-letter      *)
(*     string, or a member of NonAsciiChars, which stands for a character  *)
(*     whose UTF-8 encoding has two bytes (str::len counts bytes,          *)
(*     str::chars counts characters).                                      *)
(*   Option<T> is a sequence of length 0 (None) or 1 (Some).               *)
(*   An f64 amount is an integer number of thousandths (10.0 is 10000).    *)
(*   A similarity score is an exact fraction [num, den]; the f64 rounding  *)
(*     of the source is not modelled.                                      *)
(***************************************************************************)
EXTENDS Integers, Sequences, FiniteSets, TLC

VARIABLES
    \* deduplicator.rs: one Deduplicator, its input and two successive outputs
    ddStrategy, ddInput, ddOut1, ddOut2, ddPc,
    \* deduplicator.rs: one evaluation of similarity_score on a pair
    simA, simB, simAB, simBA, simAA, simPc,
    \* validator.rs: one coupon put to Validator::is_valid at time vNow
    vCoupon, vNow, vResult, vPc,
    \* proxy_manager.rs: the active queue, the quarantine list, the monotonic
    \* clock (seconds), the configuration and the calls made so far
    pmProxies, pmFailed, pmNow, pmConfig, pmHistory,
    \* mod.rs, process_batch: the URLs, max_concurrent_requests, the permits the
    \* semaphore has left, the spawned per-URL tasks, the caller's position
    bUrls, bMaxConcurrent, bPermits, bTasks, bMain,
    \* rate_limiter.rs: the task owning the guard of `limits`, the map itself,
    \* and the monotonic clock in units of 100 ms
    rlHolder, rlLimits, bNow,
    \* rate_limiter.rs: a RateLimiter used on its own: its default_rate, the
    \* callers that are inside wait_if_needed, and the calls that have returned
    rlDefaultRate, rlCallers, rlHistory,
    \* rate_limiter.rs: a BurstRateLimiter: default_rate, default_burst, the
    \* buckets, the callers of acquire_or_wait, and the calls that have returned
    tbDefaultRate, tbDefaultBurst, tbBuckets, tbWaiters, tbHistory,
    \* rate_limiter.rs: a DistributedRateLimiter: whether redis_client is Some,
    \* the counters of the shared store, and the calls made so far
    dlClient, dlStore, dlHistory,
    \* scraper.rs, fetch_content: the configuration, the loop variable, the
    \* last error, what the call has done so far (sleeps and requests), its
    \* position and what it returned
    fConfig, fAttempt, fLastError, fLog, fPc, fRet,
    \* concurrent calls on one ProxyManager: the tasks, and the owners of the
    \* guards of `proxies` and `failed_proxies`
    lkTasks, lkProxiesGuard, lkFailedGuard,
    \* validator.rs, validate_batch: the input, the results pushed so far, the
    \* local is_valid, the clock and the position in the loop
    vbCoupons, vbResults, vbIsValid, vbNow, vbPc,
    \* mod.rs, process_batch after the fetches: the URLs, the fetched pages, the
    \* parse result and the valid_coupons of each unit, the clock, what
    \* process_batch returned and the position
    puUrls, puPages, puParsed, puValid, puNow, puRet, puPc

batchVars == <<bUrls, bMaxConcurrent, bPermits, bTasks, bMain, rlHolder, rlLimits, bNow>>
pmVars == <<pmProxies, pmFailed, pmNow, pmConfig, pmHistory>>
valVars == <<vCoupon, vNow, vResult, vPc>>
ddVars == <<ddStrategy, ddInput, ddOut1, ddOut2, ddPc>>
simVars == <<simA, simB, simAB, simBA, simAA, simPc>>
rlVars == <<rlDefaultRate, rlCallers, rlHistory>>
tbVars == <<tbDefaultRate, tbDefaultBurst, tbBuckets, tbWaiters, tbHistory>>
dlVars == <<dlClient, dlStore, dlHistory>>
fVars == <<fConfig, fAttempt, fLastError, fLog, fPc, fRet>>
lkVars == <<lkTasks, lkProxiesGuard, lkFailedGuard>>
vbVars == <<vbCoupons, vbResults, vbIsValid, vbNow, vbPc>>
puVars == <<puUrls, puPages, puParsed, puValid, puNow, puRet, puPc>>
vars == <<ddVars, simVars, valVars, pmVars, batchVars, rlVars, tbVars, dlVars, fVars, lkVars, vbVars, puVars>>
\* what the steps of each specification leave unchanged
dedupFrame == <<simVars, valVars, pmVars, batchVars, rlVars, tbVars, dlVars, fVars, lkVars, vbVars, puVars>>
simFrame == <<ddVars, valVars, pmVars, batchVars, rlVars, tbVars, dlVars, fVars, lkVars, vbVars, puVars>>
valFrame == <<ddVars, simVars, pmVars, batchVars, rlVars, tbVars, dlVars, fVars, lkVars, vbVars, puVars>>
pmFrame == <<ddVars, simVars, valVars, batchVars, rlVars, tbVars, dlVars, fVars, lkVars, vbVars, puVars>>
batchFrame == <<ddVars, simVars, valVars, pmVars, rlVars, tbVars, dlVars, fVars, lkVars, vbVars, puVars>>
rlFrame == <<ddVars, simVars, valVars, pmVars, tbVars, dlVars, fVars, lkVars, vbVars, puVars>>
tbFrame == <<ddVars, simVars, valVars, pmVars, batchVars, rlVars, dlVars, fVars, lkVars, vbVars, puVars>>
awFrame == <<ddVars, simVars, valVars, pmVars, batchVars, rlVars, dlVars, fVars, lkVars, vbVars, puVars>>
dlFrame == <<ddVars, simVars, valVars, pmVars, tbVars, fVars, lkVars, vbVars, puVars>>
batchdropFrame == <<ddVars, simVars, valVars, pmVars, rlVars, tbVars, dlVars, fVars, lkVars, vbVars, puVars>>
fetchFrame == <<ddVars, simVars, valVars, pmVars, batchVars, rlVars, tbVars, dlVars, lkVars, vbVars, puVars>>
rotFrame == <<ddVars, simVars, valVars, batchVars, rlVars, tbVars, dlVars, fVars, lkVars, vbVars, puVars>>
lockFrame == <<ddVars, simVars, valVars, batchVars, rlVars, tbVars, dlVars, fVars, vbVars, puVars>>
vbFrame == <<ddVars, simVars, valVars, pmVars, batchVars, rlVars, tbVars, dlVars, fVars, lkVars, puVars>>
puFrame == <<ddVars, simVars, valVars, pmVars, batchVars, rlVars, tbVars, dlVars, fVars, lkVars, vbVars>>
burstFrame == <<ddVars, simVars, valVars, pmVars, batchVars, rlVars, dlVars, fVars, lkVars, vbVars, puVars>>

(***************************************************************************)
(* Bounds of the model                                                     *)
(***************************************************************************)
\* longest input list drawn from DedupUniverse
MaxInputLen == 3

(***************************************************************************)
(* Generic helpers                                                         *)
(***************************************************************************)
None == <<>>
Some(v) == <<v>>
IsSome(o) == Len(o) = 1
Unwrap(o) == o[1]

Min2(a, b) == IF a <= b THEN a ELSE b
Max2(a, b) == IF a >= b THEN a ELSE b
Abs(x) == IF x < 0 THEN -x ELSE x

Range(s) == {s[i] : i \in 1..Len(s)}

\* all sequences over S of length at most n
RECURSIVE SeqsUpTo(_, _)
SeqsUpTo(S, n) ==
    IF n = 0 THEN {<<>>}
    ELSE LET shorter == SeqsUpTo(S, n - 1)
         IN  shorter \cup {Append(s, x) : s \in {t \in shorter : Len(t) = n - 1}, x \in S}

\* all orderings (sequences without repetition) of the finite set S
RECURSIVE Orderings(_)
Orderings(S) ==
    IF S = {} THEN {<<>>}
    ELSE UNION {{<<x>> \o rest : rest \in Orderings(S \ {x})} : x \in S}

RECURSIVE Flatten(_)
Flatten(ss) == IF ss = <<>> THEN <<>> ELSE Head(ss) \o Flatten(Tail(ss))

\* number of positions of s that hold x
Count(s, x) == Cardinality({i \in 1..Len(s) : s[i] = x})

(***************************************************************************)
(* Strings                                                                 *)
(***************************************************************************)
NonAsciiChars == {"U+00E9"}

\* bytes of one character in UTF-8
Utf8Len(c) == IF c \in NonAsciiChars THEN 2 ELSE 1

\* str::len(): the length in bytes
ByteLen(s) == Len(s) + Cardinality({i \in 1..Len(s) : Utf8Len(s[i]) = 2})


Str10 == <<"0", "1", "2", "3", "4", "5", "6", "7", "8", "9">>
UpperChars == <<"A", "B", "C", "D", "E", "F", "G", "H", "I", "J", "K", "L", "M",
                "N", "O", "P", "Q", "R", "S", "T", "U", "V", "W", "X", "Y", "Z">>
LowerChars == <<"a", "b", "c", "d", "e", "f", "g", "h", "i", "j", "k", "l", "m",
                "n", "o", "p", "q", "r", "s", "t", "u", "v", "w", "x", "y", "z">>
Digits == Range(Str10)
Uppers == Range(UpperChars)
Lowers == Range(LowerChars)

\* char::to_lowercase / to_uppercase on the characters of the model
CharToLower(c) ==
    IF c \in Uppers THEN LowerChars[CHOOSE i \in 1..Len(UpperChars) : UpperChars[i] = c] ELSE c
CharToUpper(c) ==
    IF c \in Lowers THEN UpperChars[CHOOSE i \in 1..Len(LowerChars) : LowerChars[i] = c] ELSE c
ToLowercase(s) == [i \in 1..Len(s) |-> CharToLower(s[i])]
ToUppercase(s) == [i \in 1..Len(s) |-> CharToUpper(s[i])]

\* str::contains: needle occurs in s as a contiguous substring
Contains(s, needle) ==
    \E i \in 0..(Len(s) - Len(needle)) :
        \A k \in 1..Len(needle) : s[i + k] = needle[k]

\* decimal digits of a natural number
RECURSIVE NatToString(_)
NatToString(n) ==
    IF n < 10 THEN <<Str10[n + 1]>> ELSE Append(NatToString(n \div 10), Str10[(n % 10) + 1])

RECURSIVE StripTrailingZeros(_)
StripTrailingZeros(s) ==
    IF s # <<>> /\ s[Len(s)] = "0" THEN StripTrailingZeros(SubSeq(s, 1, Len(s) - 1)) ELSE s

\* f64 Display (value.to_string()) of a non-negative amount given in
\* thousandths: 10000 is "10", 10500 is "10.5", 5 is "0.005"
F64ToString(v) ==
    LET whole == v \div 1000
        frac  == v % 1000
        padded == <<Str10[(frac \div 100) + 1], Str10[((frac \div 10) % 10) + 1], Str10[(frac % 10) + 1]>>
    IN  IF frac = 0 THEN NatToString(whole)
        ELSE NatToString(whole) \o <<".">> \o StripTrailingZeros(padded)

(***************************************************************************)
(* RawCoupon (mod.rs) and DiscountType                                     *)
(* The fields no modelled function reads (description, minimum_order,      *)
(* maximum_discount, source_url, source_type, metadata, scraped_at) are    *)
(* left out.                                                               *)
(***************************************************************************)
DiscountTypes == {"Percentage", "Fixed", "FreeShipping", "Bogo", "CashBack", "Points", "Unknown"}

RawCoupon(code, title, dtype, dvalue, vfrom, vuntil, mname, mdomain) ==
    [code |-> code, title |-> title, discount_type |-> dtype, discount_value |-> dvalue,
     valid_from |-> vfrom, valid_until |-> vuntil,
     merchant_name |-> mname, merchant_domain |-> mdomain]

\* impl DiscountType { fn to_string }
DiscountTypeToString(t) ==
    CASE t = "Percentage"   -> <<"p", "e", "r", "c", "e", "n", "t", "a", "g", "e">>
      [] t = "Fixed"        -> <<"f", "i", "x", "e", "d">>
      [] t = "FreeShipping" -> <<"f", "r", "e", "e", "_", "s", "h", "i", "p", "p", "i", "n", "g">>
      [] t = "Bogo"         -> <<"b", "o", "g", "o">>
      [] t = "CashBack"     -> <<"c", "a", "s", "h", "_", "b", "a", "c", "k">>
      [] t = "Points"       -> <<"p", "o", "i", "n", "t", "s">>
      [] t = "Unknown"      -> <<"u", "n", "k", "n", "o", "w", "n">>

(***************************************************************************)
(* deduplicator.rs: Levenshtein distance and similarity                    *)
(***************************************************************************)
\* one pass of the inner loop: the cells matrix[i+1][1..] from row i (prev);
\* cur holds the cells already computed, prev[k] is matrix[i][k-1].
\* (The tests on Len in LevFillRow and LevRows always succeed: they make the
\* model checker compute a row before it goes on to the next.)
RECURSIVE LevFillRow(_, _, _, _, _)
LevFillRow(prev, c1, s2, j, cur) ==
    IF j > Len(s2) THEN cur
    ELSE LET cost == IF c1 = s2[j] THEN 0 ELSE 1
             cell == Min2(prev[j] + cost, Min2(cur[j] + 1, prev[j + 1] + 1))
             next == Append(cur, cell)
         IN  IF Len(next) = j + 1 THEN LevFillRow(prev, c1, s2, j + 1, next) ELSE next

\* the outer loop over the characters of s1, from row i - 1 (prev)
RECURSIVE LevRows(_, _, _, _)
LevRows(s1, s2, i, prev) ==
    IF i > Len(s1) THEN prev
    ELSE LET row == LevFillRow(prev, s1[i], s2, 1, <<prev[1] + 1>>)
         IN  IF Len(row) = Len(prev) THEN LevRows(s1, s2, i + 1, row) ELSE row

\* The matrix has (len1+1) x (len2+1) cells, len in BYTES; the borders are
\* set for every byte index, the loops fill a cell per pair of CHARACTERS.
\* The result is matrix[len1][len2]; when a string has a multi-byte
\* character that cell is beyond the filled part and still holds 0.
levenshtein_distance(s1, s2) ==
    LET len1 == ByteLen(s1)
        len2 == ByteLen(s2)
        lastRow == LevRows(s1, s2, 1, [k \in 1..(Len(s2) + 1) |-> k - 1])
    IN  IF len1 = 0 THEN len2
        ELSE IF len2 = 0 THEN len1
        ELSE IF len1 = Len(s1) /\ len2 = Len(s2) THEN lastRow[Len(s2) + 1]
        ELSE 0

\* 1.0 - distance / max_len as a fraction; 1.0 when both strings are empty
levenshtein_similarity(s1, s2) ==
    LET distance == levenshtein_distance(s1, s2)
        max_len == Max2(ByteLen(s1), ByteLen(s2))
    IN  IF max_len = 0 THEN [num |-> 1, den |-> 1]
        ELSE [num |-> max_len - distance, den |-> max_len]

\* the weights of similarity_score, in hundredths
CodeWeight == 40
TitleWeight == 30
DiscountWeight == 30
TypeBonus == 20
ValueBonus == 10
\* (v1 - v2).abs() < 0.01, in thousandths
ValueTolerance == 10

similarity_score(coupon1, coupon2) ==
    LET cs == levenshtein_similarity(coupon1.code, coupon2.code)
        ts == levenshtein_similarity(coupon1.title, coupon2.title)
        sameType == coupon1.discount_type = coupon2.discount_type
        sameValue == /\ IsSome(coupon1.discount_value)
                     /\ IsSome(coupon2.discount_value)
                     /\ Abs(Unwrap(coupon1.discount_value) - Unwrap(coupon2.discount_value)) < ValueTolerance
        bonus == IF sameType THEN TypeBonus + (IF sameValue THEN ValueBonus ELSE 0) ELSE 0
        weight_total == CodeWeight + TitleWeight + DiscountWeight
    IN  [num |-> CodeWeight * cs.num * ts.den + TitleWeight * ts.num * cs.den + bonus * cs.den * ts.den,
         den |-> weight_total * cs.den * ts.den]

\* score > threshold, the threshold in hundredths
ScoreExceeds(score, threshold) == score.num * 100 > threshold * score.den
\* score == 1.0
ScoreIsOne(score) == score.num = score.den
ScoreEq(s1, s2) == s1.num * s2.den = s2.num * s1.den

(***************************************************************************)
(* deduplicator.rs: the four strategies                                    *)
(***************************************************************************)
\* SHA-256 of the concatenated updates, modelled by its preimage: two
\* coupons have the same hash iff the concatenations are the same bytes
compute_coupon_hash(coupon) ==
    coupon.code \o coupon.merchant_domain \o DiscountTypeToString(coupon.discount_type)
        \o (IF IsSome(coupon.discount_value) THEN F64ToString(Unwrap(coupon.discount_value)) ELSE <<>>)

\* mutant of CodeAndMerchantLoop: `if !seen.insert(key)`, the test inverted
RECURSIVE CodeAndMerchantLoopInverted(_, _, _)
CodeAndMerchantLoopInverted(coupons, seen, unique_coupons) ==
    IF coupons = <<>> THEN unique_coupons
    ELSE LET coupon == Head(coupons)
             key == <<coupon.code, coupon.merchant_domain>>
         IN  IF key \in seen
             THEN CodeAndMerchantLoopInverted(Tail(coupons), seen, Append(unique_coupons, coupon))
             ELSE CodeAndMerchantLoopInverted(Tail(coupons), seen \cup {key}, unique_coupons)

\* mutant of CodeAndMerchantLoop: the key is the code alone
RECURSIVE CodeAndMerchantLoopByCode(_, _, _)
CodeAndMerchantLoopByCode(coupons, seen, unique_coupons) ==
    IF coupons = <<>> THEN unique_coupons
    ELSE LET coupon == Head(coupons)
             key == coupon.code
         IN  IF key \notin seen
             THEN CodeAndMerchantLoopByCode(Tail(coupons), seen \cup {key}, Append(unique_coupons, coupon))
             ELSE CodeAndMerchantLoopByCode(Tail(coupons), seen, unique_coupons)

RECURSIVE CodeAndMerchantLoop(_, _, _)
CodeAndMerchantLoop(coupons, seen, unique_coupons) ==
    IF coupons = <<>> THEN unique_coupons
    ELSE LET coupon == Head(coupons)
             key == <<coupon.code, coupon.merchant_domain>>
         IN  IF key \notin seen
             THEN CodeAndMerchantLoop(Tail(coupons), seen \cup {key}, Append(unique_coupons, coupon))
             ELSE CodeAndMerchantLoop(Tail(coupons), seen, unique_coupons)

deduplicate_by_code_and_merchant(coupons) == CodeAndMerchantLoop(coupons, {}, <<>>)

RECURSIVE HashLoop(_, _, _)
HashLoop(coupons, seen_hashes, unique_coupons) ==
    IF coupons = <<>> THEN unique_coupons
    ELSE LET coupon == Head(coupons)
             hash == compute_coupon_hash(coupon)
         IN  IF hash \notin seen_hashes
             THEN HashLoop(Tail(coupons), seen_hashes \cup {hash}, Append(unique_coupons, coupon))
             ELSE HashLoop(Tail(coupons), seen_hashes, unique_coupons)

deduplicate_by_hash(coupons) == HashLoop(coupons, {}, <<>>)

\* mutant of FuzzyLoop: a coupon is compared with the last kept coupon only
RECURSIVE FuzzyLoopComparesLast(_, _, _)
FuzzyLoopComparesLast(coupons, threshold, unique_coupons) ==
    IF coupons = <<>> THEN unique_coupons
    ELSE LET coupon == Head(coupons)
             is_duplicate ==
                 /\ unique_coupons # <<>>
                 /\ ScoreExceeds(similarity_score(unique_coupons[Len(unique_coupons)], coupon),
                                 threshold)
         IN  IF ~is_duplicate
             THEN FuzzyLoopComparesLast(Tail(coupons), threshold, Append(unique_coupons, coupon))
             ELSE FuzzyLoopComparesLast(Tail(coupons), threshold, unique_coupons)

RECURSIVE FuzzyLoop(_, _, _)
FuzzyLoop(coupons, threshold, unique_coupons) ==
    IF coupons = <<>> THEN unique_coupons
    ELSE LET coupon == Head(coupons)
             is_duplicate == \E k \in 1..Len(unique_coupons) :
                                 ScoreExceeds(similarity_score(unique_coupons[k], coupon), threshold)
         IN  IF ~is_duplicate
             THEN FuzzyLoop(Tail(coupons), threshold, Append(unique_coupons, coupon))
             ELSE FuzzyLoop(Tail(coupons), threshold, unique_coupons)

deduplicate_fuzzy(coupons, threshold) == FuzzyLoop(coupons, threshold, <<>>)

\* the threshold of the second pass of the combined strategy, in hundredths
CombinedFuzzyThreshold == 85

\* The combined strategy when the HashMap of merchant groups is iterated in
\* the order `order` (a sequence of the merchant domains present).
deduplicate_combined_in_order(coupons, order) ==
    LET exact == deduplicate_by_code_and_merchant(coupons)
        group(m) == SelectSeq(exact, LAMBDA c : c.merchant_domain = m)
        final_coupons == Flatten([k \in 1..Len(order) |->
                                     deduplicate_fuzzy(group(order[k]), CombinedFuzzyThreshold)])
    IN  deduplicate_by_hash(final_coupons)

\* `for (_, group) in merchant_groups` visits a std HashMap, whose iteration
\* order is unspecified (RandomState): every order of the groups can occur.
deduplicate_combined(coupons) ==
    LET merchants == {c.merchant_domain : c \in Range(deduplicate_by_code_and_merchant(coupons))}
    IN  {deduplicate_combined_in_order(coupons, order) : order \in Orderings(merchants)}

Strategy(kind, threshold) == [kind |-> kind, threshold |-> threshold]

\* Deduplicator::deduplicate: the set of results the call can return (always Ok)
deduplicate(strategy, coupons) ==
    CASE strategy.kind = "CodeAndMerchant" -> {deduplicate_by_code_and_merchant(coupons)}
      [] strategy.kind = "Fuzzy"           -> {deduplicate_fuzzy(coupons, strategy.threshold)}
      [] strategy.kind = "HashBased"       -> {deduplicate_by_hash(coupons)}
      [] strategy.kind = "Combined"        -> deduplicate_combined(coupons)

\* Deduplicator::new
DefaultStrategy == Strategy("Combined", 0)


(***************************************************************************)
(* deduplicator.rs tests: the coupons the model draws its inputs from      *)
(***************************************************************************)
SAVE10 == <<"S", "A", "V", "E", "1", "0">>
SAVE1O == <<"S", "A", "V", "E", "1", "O">>
SAVE20 == <<"S", "A", "V", "E", "2", "0">>
SAVE1 == <<"S", "A", "V", "E", "1">>
DISCOUNT20 == <<"D", "I", "S", "C", "O", "U", "N", "T", "2", "0">>
Amazon == <<"A", "m", "a", "z", "o", "n">>
Target == <<"T", "a", "r", "g", "e", "t">>
DotCom == <<".", "c", "o", "m">>
DiscountSuffix == <<" ", "D", "i", "s", "c", "o", "u", "n", "t">>

\* tests::create_test_coupon: title "{code} Discount", 10 percent,
\* merchant_domain "{merchant lowercased}.com"
create_test_coupon(code, merchant) ==
    RawCoupon(code, code \o DiscountSuffix, "Percentage", Some(10000), None, None,
              merchant, ToLowercase(merchant) \o DotCom)

\* tests::test_exact_duplicate_removal
TestExactDuplicateInput ==
    <<create_test_coupon(SAVE10, Amazon), create_test_coupon(SAVE10, Amazon),
      create_test_coupon(SAVE10, Target), create_test_coupon(SAVE20, Amazon)>>

\* tests::test_fuzzy_deduplication
TestFuzzyInput ==
    <<create_test_coupon(SAVE10, Amazon), create_test_coupon(SAVE1O, Amazon),
      create_test_coupon(DISCOUNT20, Amazon)>>

\* the same (code, merchant_domain) as SAVE10 at Amazon, another title, no value
OldSave10 ==
    RawCoupon(SAVE10, <<"O", "l", "d">>, "Percentage", None, None, None,
              Amazon, ToLowercase(Amazon) \o DotCom)
\* code ++ merchant_domain reads "SAVE10amazon.com", as for SAVE10 at Amazon
ShiftedSave1 ==
    RawCoupon(SAVE1, SAVE1 \o DiscountSuffix, "Percentage", Some(10000), None, None,
              Amazon, <<"0">> \o ToLowercase(Amazon) \o DotCom)
\* a title with a two-byte character
CafeCoupon ==
    RawCoupon(SAVE20, <<"c", "a", "f", "U+00E9">>, "Fixed", Some(10005), None, None,
              Target, ToLowercase(Target) \o DotCom)
FixedCoupon ==
    RawCoupon(SAVE20, <<"c", "a", "f", "e">>, "Fixed", Some(10000), None, None,
              Target, ToLowercase(Target) \o DotCom)
EmptyCoupon ==
    RawCoupon(<<>>, <<>>, "Unknown", None, None, None, <<>>, <<>>)

DedupUniverse ==
    {create_test_coupon(SAVE10, Amazon), create_test_coupon(SAVE10, Target),
     create_test_coupon(SAVE20, Amazon), create_test_coupon(SAVE1O, Amazon),
     OldSave10, ShiftedSave1}

SimUniverse ==
    DedupUniverse \cup {create_test_coupon(DISCOUNT20, Amazon), CafeCoupon, FixedCoupon, EmptyCoupon}

\* Fuzzy { threshold } is drawn from the thresholds the source uses
\* (0.8 in tests::test_fuzzy_deduplication, 0.85 in deduplicate_combined)
TestFuzzyThreshold == 80
Strategies ==
    {Strategy("CodeAndMerchant", 0), Strategy("HashBased", 0), Strategy("Combined", 0),
     Strategy("Fuzzy", TestFuzzyThreshold), Strategy("Fuzzy", CombinedFuzzyThreshold)}

DedupInputs == SeqsUpTo(DedupUniverse, MaxInputLen) \cup {TestExactDuplicateInput, TestFuzzyInput}

(***************************************************************************)
(* SpecDedup: a Deduplicator applied to an input, then to its own output   *)
(***************************************************************************)
DedupIdle ==
    /\ ddStrategy = DefaultStrategy
    /\ ddInput = <<>>
    /\ ddOut1 = <<>>
    /\ ddOut2 = <<>>
    /\ ddPc = "idle"

InitDedup ==
    /\ ddStrategy \in Strategies
    /\ ddInput \in DedupInputs
    /\ ddOut1 = <<>>
    /\ ddOut2 = <<>>
    /\ ddPc = "input"

\* result = deduplicator.deduplicate(coupons).await.unwrap()
Deduplicate ==
    /\ ddPc = "input"
    /\ ddOut1' \in deduplicate(ddStrategy, ddInput)
    /\ ddPc' = "once"
    /\ UNCHANGED <<ddStrategy, ddInput, ddOut2>>

\* the same Deduplicator applied to its own result
DeduplicateAgain ==
    /\ ddPc = "once"
    /\ ddOut2' \in deduplicate(ddStrategy, ddOut1)
    /\ ddPc' = "twice"
    /\ UNCHANGED <<ddStrategy, ddInput, ddOut1>>

(***************************************************************************)
(* SpecSim: similarity_score evaluated on a pair of coupons                *)
(***************************************************************************)
NoScore == [num |-> 0, den |-> 1]

SimIdle ==
    /\ simA = EmptyCoupon
    /\ simB = EmptyCoupon
    /\ simAB = NoScore
    /\ simBA = NoScore
    /\ simAA = NoScore
    /\ simPc = "idle"

InitSim ==
    /\ simA \in SimUniverse
    /\ simB \in SimUniverse
    /\ simAB = NoScore
    /\ simBA = NoScore
    /\ simAA = NoScore
    /\ simPc = "input"

Score ==
    /\ simPc = "input"
    /\ simAB' = similarity_score(simA, simB)
    /\ simBA' = similarity_score(simB, simA)
    /\ simAA' = similarity_score(simA, simA)
    /\ simPc' = "scored"
    /\ UNCHANGED <<simA, simB>>

(***************************************************************************)
(* validator.rs                                                            *)
(* Instants (chrono DateTime<Utc>) are integers, in hours.                 *)
(***************************************************************************)
AlphaNumerics == Uppers \cup Lowers \cup Digits

\* Validator::new, amounts in thousandths
min_discount_value == 1000
max_discount_percentage == 99000
max_future_days == 365
\* the literal upper limits of validate_discount, in thousandths
MaxFixedDiscount == 10000000
MaxCashBack == 100000
MaxPoints == 100000000
\* the limits of VALID_CODE_PATTERN, validate_merchant and is_valid_domain
MinCodeLen == 3
MaxCodeLen == 50
MaxMerchantNameLen == 100
MinDomainLen == 4
MaxDomainLen == 253
\* a DNS label of the domain pattern: 1 + {0,61} + an optional last character
MaxLabelMiddle == 61

\* SPAM_KEYWORDS
SPAM_KEYWORDS ==
    {<<"T", "E", "S", "T">>, <<"D", "E", "M", "O">>, <<"E", "X", "A", "M", "P", "L", "E">>,
     <<"F", "A", "K", "E">>, <<"I", "N", "V", "A", "L", "I", "D">>}

\* VALID_CODE_PATTERN.is_match: ^[A-Z0-9]{3,50}$
MatchesValidCodePattern(code) ==
    /\ Len(code) >= MinCodeLen
    /\ Len(code) <= MaxCodeLen
    /\ \A i \in 1..Len(code) : code[i] \in Uppers \cup Digits

\* the loop `for i in (4..chars.len()).step_by(2)`, chars indexed from 0
RECURSIVE FollowsPattern(_, _)
FollowsPattern(chars, i) ==
    IF i >= Len(chars) THEN TRUE
    ELSE IF chars[i + 1] # chars[1] THEN FALSE
    ELSE IF i + 1 < Len(chars) /\ chars[i + 2] # chars[2] THEN FALSE
    ELSE FollowsPattern(chars, i + 2)

\* mutant of has_repetitive_pattern: only the first four characters are compared
has_repetitive_pattern_first_four(code) ==
    IF ByteLen(code) < 4 THEN FALSE
    ELSE IF \A i \in 1..Len(code) : code[i] = code[1] THEN TRUE
    ELSE Len(code) >= 4 /\ code[1] = code[3] /\ code[2] = code[4]

has_repetitive_pattern(code) ==
    IF ByteLen(code) < 4 THEN FALSE
    ELSE IF \A i \in 1..Len(code) : code[i] = code[1] THEN TRUE
    ELSE IF Len(code) >= 4 /\ code[1] = code[3] /\ code[2] = code[4]
         THEN FollowsPattern(code, 4)
         ELSE FALSE

\* mutant of validate_discount: a coupon of unknown discount type is accepted
validate_discount_accepts_unknown(discount_type, value) ==
    CASE discount_type = "Percentage" ->
             IsSome(value) /\ Unwrap(value) >= min_discount_value /\ Unwrap(value) <= max_discount_percentage
      [] discount_type = "Fixed" ->
             IsSome(value) /\ Unwrap(value) >= min_discount_value /\ Unwrap(value) <= MaxFixedDiscount
      [] discount_type \in {"FreeShipping", "Bogo"} -> TRUE
      [] discount_type = "CashBack" ->
             IsSome(value) /\ Unwrap(value) >= min_discount_value /\ Unwrap(value) <= MaxCashBack
      [] discount_type = "Points" ->
             IsSome(value) /\ Unwrap(value) >= 1000 /\ Unwrap(value) <= MaxPoints
      [] discount_type = "Unknown" -> TRUE

validate_code(code) ==
    IF ~MatchesValidCodePattern(code) THEN FALSE
    ELSE IF \E keyword \in SPAM_KEYWORDS : Contains(ToUppercase(code), keyword) THEN FALSE
    ELSE IF has_repetitive_pattern(code) THEN FALSE
    ELSE TRUE

validate_discount(discount_type, value) ==
    CASE discount_type = "Percentage" ->
             IsSome(value) /\ Unwrap(value) >= min_discount_value /\ Unwrap(value) <= max_discount_percentage
      [] discount_type = "Fixed" ->
             IsSome(value) /\ Unwrap(value) >= min_discount_value /\ Unwrap(value) <= MaxFixedDiscount
      [] discount_type \in {"FreeShipping", "Bogo"} -> TRUE
      [] discount_type = "CashBack" ->
             IsSome(value) /\ Unwrap(value) >= min_discount_value /\ Unwrap(value) <= MaxCashBack
      [] discount_type = "Points" ->
             IsSome(value) /\ Unwrap(value) >= 1000 /\ Unwrap(value) <= MaxPoints
      [] discount_type = "Unknown" -> FALSE

\* chrono Duration::num_days of a non-negative duration in hours: whole days
num_days(hours) == hours \div 24

\* validate_dates, with `now` the value Utc::now() returns
validate_dates(coupon, now) ==
    IF IsSome(coupon.valid_until) /\ Unwrap(coupon.valid_until) < now THEN FALSE
    ELSE IF IsSome(coupon.valid_until) /\ num_days(Unwrap(coupon.valid_until) - now) > max_future_days
         THEN FALSE
    ELSE IF IsSome(coupon.valid_from) /\ Unwrap(coupon.valid_from) > now THEN FALSE
    ELSE IF /\ IsSome(coupon.valid_from)
            /\ IsSome(coupon.valid_until)
            /\ Unwrap(coupon.valid_from) >= Unwrap(coupon.valid_until)
         THEN FALSE
    ELSE TRUE

\* the pieces of s between its dots
SplitDots(s) ==
    LET dots == {i \in 1..Len(s) : s[i] = "."}
        starts == {1} \cup {i + 1 : i \in dots}
        StopOf(st) == CHOOSE j \in dots \cup {Len(s) + 1} :
                         j >= st /\ \A k \in dots : k >= st => j <= k
    IN  {SubSeq(s, st, StopOf(st) - 1) : st \in starts}

\* [a-zA-Z0-9][a-zA-Z0-9-]{0,61}[a-zA-Z0-9]?
MatchesLabel(l) ==
    /\ Len(l) >= 1
    /\ l[1] \in AlphaNumerics
    /\ \A i \in 2..Len(l) : l[i] \in AlphaNumerics \cup {"-"}
    /\ Len(l) <= MaxLabelMiddle + 2
    /\ Len(l) = MaxLabelMiddle + 2 => l[Len(l)] \in AlphaNumerics

\* domain_pattern.is_match: ^label(\.label)*$
MatchesDomainPattern(domain) ==
    \A label \in SplitDots(domain) : MatchesLabel(label)

is_valid_domain(domain) ==
    IF ByteLen(domain) < MinDomainLen \/ ByteLen(domain) > MaxDomainLen THEN FALSE
    ELSE MatchesDomainPattern(domain)

validate_merchant(coupon) ==
    IF coupon.merchant_name = <<>> \/ ByteLen(coupon.merchant_name) > MaxMerchantNameLen THEN FALSE
    ELSE IF coupon.merchant_domain = <<>> \/ ~is_valid_domain(coupon.merchant_domain) THEN FALSE
    ELSE TRUE

\* mutant of is_valid: the merchant check is left out
is_valid_without_merchant(coupon, now) ==
    IF ~validate_code(coupon.code) THEN FALSE
    ELSE IF ~validate_discount(coupon.discount_type, coupon.discount_value) THEN FALSE
    ELSE IF ~validate_dates(coupon, now) THEN FALSE
    ELSE TRUE

\* Validator::is_valid; validate_dates reads the clock once
is_valid(coupon, now) ==
    IF ~validate_code(coupon.code) THEN FALSE
    ELSE IF ~validate_discount(coupon.discount_type, coupon.discount_value) THEN FALSE
    ELSE IF ~validate_dates(coupon, now) THEN FALSE
    ELSE IF ~validate_merchant(coupon) THEN FALSE
    ELSE TRUE

(***************************************************************************)
(* SpecVal: Validator::is_valid on one coupon                              *)
(***************************************************************************)
Repeat(c, n) == [i \in 1..n |-> c]
TestStore == <<"T", "e", "s", "t", " ", "S", "t", "o", "r", "e">>
TestStoreDomain == <<"t", "e", "s", "t", "s", "t", "o", "r", "e">> \o DotCom

ValCodes ==
    {SAVE20, <<"A", "A", "A", "A">>, <<"A", "B", "A", "B", "A">>, <<"A", "B", "A", "C">>,
     <<"A", "B">>, <<"s", "a", "v", "e", "2", "0">>, <<"T", "E", "S", "T", "1", "0">>,
     Repeat("A", MaxCodeLen) \o <<"B">>, <<"A", "A", "A">>, <<"A", "B", "A", "B">>,
     <<"A", "B", "A", "B", "A", "C">>}

ValDiscounts ==
    {<<"Percentage", Some(20000)>>, <<"Percentage", None>>, <<"Percentage", Some(99001)>>,
     <<"Percentage", Some(999)>>, <<"Fixed", Some(MaxFixedDiscount)>>,
     <<"Fixed", Some(MaxFixedDiscount + 1)>>, <<"FreeShipping", None>>, <<"Bogo", None>>,
     <<"CashBack", Some(MaxCashBack + 1)>>, <<"Points", Some(MaxPoints)>>,
     <<"Unknown", Some(20000)>>}

\* offsets from `now`, in hours
ValFromOffsets == {-24, 0, 24}
ValUntilOffsets ==
    {-1, 0, 30 * 24, max_future_days * 24, max_future_days * 24 + 12, (max_future_days + 1) * 24}

ValMerchants ==
    {<<TestStore, TestStoreDomain>>, <<<<>>, TestStoreDomain>>,
     <<Repeat("n", MaxMerchantNameLen + 1), TestStoreDomain>>,
     <<TestStore, <<>>>>, <<TestStore, <<"a", ".", "b">>>>,
     <<TestStore, <<"-", "b", "a", "d">> \o DotCom>>,
     <<TestStore, <<"s", "h", "o", "p", ".">> \o DotCom>>,
     <<TestStore, Repeat("a", MaxLabelMiddle + 3) \o DotCom>>}

ValIdle ==
    /\ vCoupon = EmptyCoupon
    /\ vNow = 0
    /\ vResult = FALSE
    /\ vPc = "idle"

InitVal ==
    /\ vNow = 100000
    /\ \E code \in ValCodes, d \in ValDiscounts, m \in ValMerchants,
          vfrom \in {None} \cup {Some(vNow + o) : o \in ValFromOffsets},
          vuntil \in {None} \cup {Some(vNow + o) : o \in ValUntilOffsets} :
           vCoupon = RawCoupon(code, <<>>, d[1], d[2], vfrom, vuntil, m[1], m[2])
    /\ vResult = FALSE
    /\ vPc = "input"

\* validator.is_valid(&coupon).await
IsValid ==
    /\ vPc = "input"
    /\ vResult' = is_valid(vCoupon, vNow)
    /\ vPc' = "done"
    /\ UNCHANGED <<vCoupon, vNow>>

\* C9: is_valid returns true if and only if the code gate, the discount gate,
\* the date gate and the merchant gate all accept the coupon.
C9_ValidIffAllGates ==
    vPc = "done" =>
        (vResult <=> /\ validate_code(vCoupon.code)
                     /\ validate_discount(vCoupon.discount_type, vCoupon.discount_value)
                     /\ validate_dates(vCoupon, vNow)
                     /\ validate_merchant(vCoupon))

\* C9 witness: a coupon that the code, discount and date gates accept and the
\* merchant gate alone rejects has been rejected
C9_Witness ==
    /\ vPc = "done"
    /\ ~vResult
    /\ validate_code(vCoupon.code)
    /\ validate_discount(vCoupon.discount_type, vCoupon.discount_value)
    /\ validate_dates(vCoupon, vNow)
    /\ ~validate_merchant(vCoupon)

(***************************************************************************)
(* proxy_manager.rs                                                        *)
(* A ProxyConfig is identified by its url; the other fields are carried    *)
(* along unread by the operations modelled here.  Each call runs to        *)
(* completion before the next one starts (the calls of one task).          *)
(***************************************************************************)
MaxCalls == 4

\* tests::test_proxy_failure_handling's configuration and the default max_failures
TestRotationInterval == 1
TestMaxFailures == 2
TestRetryAfter == 5
DefaultMaxFailures == 3

ProxyManagerConfig(rotation_interval, max_failures, retry_after) ==
    [rotation_interval |-> rotation_interval, max_failures |-> max_failures,
     retry_after |-> retry_after]
TestProxyManagerConfig ==
    ProxyManagerConfig(TestRotationInterval, TestMaxFailures, TestRetryAfter)
PMConfigs ==
    {TestProxyManagerConfig,
     ProxyManagerConfig(TestRotationInterval, DefaultMaxFailures, TestRetryAfter),
     ProxyManagerConfig(TestRotationInterval, 1, TestRetryAfter),
     ProxyManagerConfig(TestRotationInterval, 0, TestRetryAfter)}

ProxyUrls == {"http://proxy1.test.com:8080", "http://proxy2.test.com:8080"}
ProxyBatches ==
    {<<>>, <<"http://proxy1.test.com:8080", "http://proxy2.test.com:8080">>,
     <<"http://proxy2.test.com:8080", "http://proxy2.test.com:8080">>}
FailureReasons == {"Connection timeout"}
SleepSecs == {TestRotationInterval, TestRetryAfter}

\* the ProxyState that add_proxy, add_proxies and recovery push
NewProxyState(url) ==
    [url |-> url, last_used |-> None, success_count |-> 0, failure_count |-> 0]
FailedProxy(url, failed_at, reason) ==
    [url |-> url, failed_at |-> failed_at, reason |-> reason]

\* position of the first entry with this url, 0 when there is none
FirstIndex(entries, url) ==
    LET hits == {i \in 1..Len(entries) : entries[i].url = url}
    IN  IF hits = {} THEN 0 ELSE CHOOSE i \in hits : \A j \in hits : i <= j

\* VecDeque::remove(index)
RemoveAt(entries, i) ==
    [k \in 1..(Len(entries) - 1) |-> IF k < i THEN entries[k] ELSE entries[k + 1]]

add_proxy(proxies, url) == Append(proxies, NewProxyState(url))

RECURSIVE add_proxies(_, _)
add_proxies(proxies, urls) ==
    IF urls = <<>> THEN proxies
    ELSE add_proxies(Append(proxies, NewProxyState(Head(urls))), Tail(urls))

\* mutant of recover_failed_proxies: an entry is due only after more than
\* retry_after
recover_failed_proxies_later(proxies, failed, config, now) ==
    LET Due(f) == now - f.failed_at > config.retry_after
        StillFailed(f) == ~Due(f)
        recovered == SelectSeq(failed, Due)
    IN  [failed |-> SelectSeq(failed, StillFailed),
         proxies |-> add_proxies(proxies, [k \in 1..Len(recovered) |-> recovered[k].url])]

\* mutant of recover_failed_proxies: every quarantined entry is due at once
recover_failed_proxies_at_once(proxies, failed, config, now) ==
    [failed |-> <<>>,
     proxies |-> add_proxies(proxies, [k \in 1..Len(failed) |-> failed[k].url])]

\* mutant of recover_failed_proxies: the entries that are due leave the
\* quarantine and are not pushed back
recover_failed_proxies_drops(proxies, failed, config, now) ==
    LET Due(f) == now - f.failed_at >= config.retry_after
        StillFailed(f) == ~Due(f)
    IN  [failed |-> SelectSeq(failed, StillFailed), proxies |-> proxies]

\* recover_failed_proxies: the pair of lists after the call (Vec::retain keeps
\* the entries not yet due, in order)
recover_failed_proxies(proxies, failed, config, now) ==
    LET Due(f) == now - f.failed_at >= config.retry_after
        StillFailed(f) == ~Due(f)
        recovered == SelectSeq(failed, Due)
    IN  [failed |-> SelectSeq(failed, StillFailed),
         proxies |-> add_proxies(proxies, [k \in 1..Len(recovered) |-> recovered[k].url])]

\* mutant of UseFront: the selected entry is stamped but stays at the front
UseFrontStays(proxies, now) ==
    [proxies |-> <<[Head(proxies) EXCEPT !.last_used = Some(now)]>> \o Tail(proxies),
     ret |-> Some(Head(proxies).url)]

\* the selected front entry stamped and moved to the tail
UseFront(proxies, now) ==
    [proxies |-> Append(Tail(proxies), [Head(proxies) EXCEPT !.last_used = Some(now)]),
     ret |-> Some(Head(proxies).url)]

\* the rotation loop of get_next_proxy and the fallback after it
RECURSIVE RotationLoop(_, _, _, _)
RotationLoop(proxies, config, now, rotations) ==
    IF rotations >= Len(proxies) THEN UseFront(proxies, now)
    ELSE LET front == Head(proxies)
             should_use == IF ~IsSome(front.last_used) THEN TRUE
                           ELSE now - Unwrap(front.last_used) >= config.rotation_interval
         IN  IF should_use THEN UseFront(proxies, now)
             ELSE RotationLoop(Append(Tail(proxies), front), config, now, rotations + 1)

get_next_proxy(proxies, failed, config, now) ==
    LET rec == recover_failed_proxies(proxies, failed, config, now)
    IN  IF rec.proxies = <<>>
        THEN [proxies |-> rec.proxies, failed |-> rec.failed, ret |-> None]
        ELSE LET sel == RotationLoop(rec.proxies, config, now, 0)
             IN  [proxies |-> sel.proxies, failed |-> rec.failed, ret |-> sel.ret]

\* mutant of mark_success: the failure counter is not reset
mark_success_keeps_failures(proxies, url) ==
    LET i == FirstIndex(proxies, url)
    IN  IF i = 0 THEN proxies
        ELSE [proxies EXCEPT ![i].success_count = @ + 1]

mark_success(proxies, url) ==
    LET i == FirstIndex(proxies, url)
    IN  IF i = 0 THEN proxies
        ELSE [proxies EXCEPT ![i].success_count = @ + 1, ![i].failure_count = 0]

\* mutant of mark_failure: the quarantined entry also stays in the queue
mark_failure_keeps_active(proxies, failed, config, now, url, reason) ==
    LET i == FirstIndex(proxies, url)
    IN  IF i = 0 THEN [proxies |-> proxies, failed |-> failed]
        ELSE LET counted == [proxies EXCEPT ![i].failure_count = @ + 1]
             IN  IF counted[i].failure_count >= config.max_failures
                 THEN [proxies |-> counted,
                       failed |-> Append(failed, FailedProxy(url, now, reason))]
                 ELSE [proxies |-> counted, failed |-> failed]

\* mutant of mark_failure: quarantine only above max_failures
mark_failure_above_max(proxies, failed, config, now, url, reason) ==
    LET i == FirstIndex(proxies, url)
    IN  IF i = 0 THEN [proxies |-> proxies, failed |-> failed]
        ELSE LET counted == [proxies EXCEPT ![i].failure_count = @ + 1]
             IN  IF counted[i].failure_count > config.max_failures
                 THEN [proxies |-> RemoveAt(counted, i),
                       failed |-> Append(failed, FailedProxy(url, now, reason))]
                 ELSE [proxies |-> counted, failed |-> failed]

mark_failure(proxies, failed, config, now, url, reason) ==
    LET i == FirstIndex(proxies, url)
    IN  IF i = 0 THEN [proxies |-> proxies, failed |-> failed]
        ELSE LET counted == [proxies EXCEPT ![i].failure_count = @ + 1]
             IN  IF counted[i].failure_count >= config.max_failures
                 THEN [proxies |-> RemoveAt(counted, i),
                       failed |-> Append(failed, FailedProxy(url, now, reason))]
                 ELSE [proxies |-> counted, failed |-> failed]

(***************************************************************************)
(* SpecPM: calls on one ProxyManager                                       *)
(***************************************************************************)
Call(op, urls, secs, ret) == [op |-> op, urls |-> urls, secs |-> secs, ret |-> ret]

PMIdle ==
    /\ pmProxies = <<>>
    /\ pmFailed = <<>>
    /\ pmNow = 0
    /\ pmConfig = TestProxyManagerConfig
    /\ pmHistory = <<>>

\* ProxyManager::with_config
InitPM ==
    /\ pmProxies = <<>>
    /\ pmFailed = <<>>
    /\ pmNow = 0
    /\ pmConfig \in PMConfigs
    /\ pmHistory = <<>>

AddProxy ==
    /\ Len(pmHistory) < MaxCalls
    /\ \E url \in ProxyUrls :
          /\ pmProxies' = add_proxy(pmProxies, url)
          /\ pmHistory' = Append(pmHistory, Call("add_proxy", <<url>>, 0, None))
    /\ UNCHANGED <<pmFailed, pmNow, pmConfig>>

AddProxies ==
    /\ Len(pmHistory) < MaxCalls
    /\ \E urls \in ProxyBatches :
          /\ pmProxies' = add_proxies(pmProxies, urls)
          /\ pmHistory' = Append(pmHistory, Call("add_proxies", urls, 0, None))
    /\ UNCHANGED <<pmFailed, pmNow, pmConfig>>

GetNextProxy ==
    /\ Len(pmHistory) < MaxCalls
    /\ LET r == get_next_proxy(pmProxies, pmFailed, pmConfig, pmNow)
       IN  /\ pmProxies' = r.proxies
           /\ pmFailed' = r.failed
           /\ pmHistory' = Append(pmHistory, Call("get_next_proxy", <<>>, 0, r.ret))
    /\ UNCHANGED <<pmNow, pmConfig>>

MarkSuccess ==
    /\ Len(pmHistory) < MaxCalls
    /\ \E url \in ProxyUrls :
          /\ pmProxies' = mark_success(pmProxies, url)
          /\ pmHistory' = Append(pmHistory, Call("mark_success", <<url>>, 0, None))
    /\ UNCHANGED <<pmFailed, pmNow, pmConfig>>

MarkFailure ==
    /\ Len(pmHistory) < MaxCalls
    /\ \E url \in ProxyUrls, reason \in FailureReasons :
          LET r == mark_failure(pmProxies, pmFailed, pmConfig, pmNow, url, reason)
          IN  /\ pmProxies' = r.proxies
              /\ pmFailed' = r.failed
              /\ pmHistory' = Append(pmHistory, Call("mark_failure", <<url>>, 0, None))
    /\ UNCHANGED <<pmNow, pmConfig>>

\* tokio::time::sleep between two calls
Sleep ==
    /\ Len(pmHistory) < MaxCalls
    /\ \E secs \in SleepSecs :
          /\ pmNow' = pmNow + secs
          /\ pmHistory' = Append(pmHistory, Call("sleep", <<>>, secs, None))
    /\ UNCHANGED <<pmProxies, pmFailed, pmConfig>>

ActiveCount(url) == Cardinality({i \in 1..Len(pmProxies) : pmProxies[i].url = url})
FailedCount(url) == Cardinality({i \in 1..Len(pmFailed) : pmFailed[i].url = url})
\* how many entries with this url the calls so far have added
AddedCount(url) ==
    LET adds == SelectSeq(pmHistory, LAMBDA c : c.op \in {"add_proxy", "add_proxies"})
    IN  Count(Flatten([k \in 1..Len(adds) |-> adds[k].urls]), url)

\* C2 (as stated): every proxy that was added, identified by its URL, is in
\* exactly one of the active queue and the quarantine list.
C2_UrlInExactlyOne ==
    \A url \in ProxyUrls :
        AddedCount(url) > 0 => ((ActiveCount(url) > 0) <=> (FailedCount(url) = 0))

\* C2 (amended): every added entry is in exactly one of the two collections:
\* for each URL the active entries plus the quarantined entries are as many as
\* the entries added with that URL, so a URL added once is in exactly one.
C2_EntryInExactlyOne ==
    \A url \in ProxyUrls : ActiveCount(url) + FailedCount(url) = AddedCount(url)

\* C2 witness: after a mark_failure, a URL added once is quarantined and not
\* active while the other URL is still active
C2_Witness ==
    /\ pmHistory # <<>>
    /\ pmHistory[Len(pmHistory)].op = "mark_failure"
    /\ \E url \in ProxyUrls, other \in ProxyUrls :
          /\ AddedCount(url) = 1
          /\ FailedCount(url) = 1
          /\ ActiveCount(url) = 0
          /\ url # other
          /\ ActiveCount(other) = 1

TestFailureHandlingCalls(url) ==
    <<Call("add_proxy", <<url>>, 0, None), Call("mark_failure", <<url>>, 0, None),
      Call("mark_failure", <<url>>, 0, None)>>

\* C10: a mark_failure that raises an active proxy's failure_count to
\* max_failures removes it from the active queue and appends it to the
\* quarantine list with failed_at = now; with max_failures = 2 and one proxy,
\* two mark_failure calls leave 0 active and 1 failed.
C10_QuarantineAtMaxFailures ==
    /\ [][(/\ Len(pmHistory') = Len(pmHistory) + 1
           /\ pmHistory'[Len(pmHistory')].op = "mark_failure")
          => LET url == pmHistory'[Len(pmHistory')].urls[1]
                 i == FirstIndex(pmProxies, url)
             IN  (i > 0 /\ pmProxies[i].failure_count + 1 = pmConfig.max_failures)
                 => /\ Len(pmProxies') = Len(pmProxies) - 1
                    /\ \A k \in 1..Len(pmProxies') :
                          pmProxies'[k] = pmProxies[IF k < i THEN k ELSE k + 1]
                    /\ Len(pmFailed') = Len(pmFailed) + 1
                    /\ SubSeq(pmFailed', 1, Len(pmFailed)) = pmFailed
                    /\ pmFailed'[Len(pmFailed')].url = url
                    /\ pmFailed'[Len(pmFailed')].failed_at = pmNow]_vars
    /\ [](\A url \in ProxyUrls :
            (pmConfig.max_failures = 2 /\ pmHistory = TestFailureHandlingCalls(url))
            => (Len(pmProxies) = 0 /\ Len(pmFailed) = 1))

\* C10 witness: tests::test_proxy_failure_handling has run up to get_stats
C10_Witness ==
    \E url \in ProxyUrls :
        /\ pmConfig.max_failures = 2
        /\ pmHistory = TestFailureHandlingCalls(url)
        /\ pmProxies = <<>>
        /\ Len(pmFailed) = 1
        /\ pmFailed[1].url = url
        /\ pmFailed[1].failed_at = pmNow

\* an entry without its last_used stamp
Unstamped(entries) == [k \in 1..Len(entries) |-> [entries[k] EXCEPT !.last_used = None]]
\* the queue turned left by n places
RotateLeft(entries, n) ==
    [k \in 1..Len(entries) |-> entries[((k + n - 1) % Len(entries)) + 1]]

\* add_proxy(url), max_failures mark_failure(url) calls, retry_after seconds of
\* sleep and one get_next_proxy call that returned ret
RecoveryCalls(url, max_failures, retry_after, ret) ==
    <<Call("add_proxy", <<url>>, 0, None)>>
    \o [k \in 1..max_failures |-> Call("mark_failure", <<url>>, 0, None)]
    \o <<Call("sleep", <<>>, retry_after, None), Call("get_next_proxy", <<>>, 0, ret)>>

\* C11: a get_next_proxy call takes every quarantined entry that failed at
\* least retry_after ago out of the quarantine list and pushes it, with
\* success_count = 0 and failure_count = 0, behind the entries of the active
\* queue, so that it counts as active and no longer as failed; after one proxy
\* was quarantined and retry_after has passed, one get_next_proxy call leaves
\* 1 active and 0 failed.
C11_RecoveredOnNextCall ==
    /\ [][(/\ Len(pmHistory') = Len(pmHistory) + 1
           /\ pmHistory'[Len(pmHistory')].op = "get_next_proxy")
          => LET Due(f) == pmNow - f.failed_at >= pmConfig.retry_after
                 NotDue(f) == ~Due(f)
                 due == SelectSeq(pmFailed, Due)
                 pushed == pmProxies \o [k \in 1..Len(due) |-> NewProxyState(due[k].url)]
             IN  /\ pmFailed' = SelectSeq(pmFailed, NotDue)
                 /\ Len(pmProxies') = Len(pmProxies) + Len(due)
                 /\ \E n \in 0..Len(pushed) :
                       Unstamped(pmProxies') = RotateLeft(Unstamped(pushed), n)]_vars
    /\ [](\A url \in ProxyUrls :
            pmHistory = RecoveryCalls(url, pmConfig.max_failures, pmConfig.retry_after,
                                      Some(url))
            => /\ Len(pmProxies) = 1
               /\ Len(pmFailed) = 0
               /\ pmProxies[1].success_count = 0
               /\ pmProxies[1].failure_count = 0)

\* C11 witness: a quarantined proxy is active again after retry_after and one
\* get_next_proxy call, which returned it
C11_Witness ==
    \E url \in ProxyUrls :
        /\ pmHistory = RecoveryCalls(url, pmConfig.max_failures, pmConfig.retry_after,
                                     Some(url))
        /\ pmFailed = <<>>
        /\ Len(pmProxies) = 1
        /\ pmProxies[1].url = url
        /\ pmProxies[1].failure_count = 0

(***************************************************************************)
(* rate_limiter.rs: RateLimiter                                            *)
(* Instants are integers in units of 100 ms.  `limits` is a function from  *)
(* the domains inserted so far to their DomainLimit.                       *)
(***************************************************************************)
\* Duration::from_secs(60) and Duration::from_millis(100), in units of 100 ms
WindowDuration == 600
WaitMargin == 1
\* EngineConfig::default().rate_limit_per_domain
rate_limit_per_domain == 10

EmptyMap == [d \in {} |-> None]

DomainLimit(max_requests) ==
    [max_requests |-> max_requests, window_duration |-> WindowDuration, request_times |-> <<>>]

\* request_times.retain(|&time| now.duration_since(time) < window_duration)
Retain(request_times, now, window_duration) ==
    SelectSeq(request_times, LAMBDA time : now - time < window_duration)

\* wait_if_needed from the entry lookup to the decision to wait, run with the
\* guard held: the map afterwards and the time to sleep, if any
wait_if_needed_check(limits, default_rate, domain, now) ==
    LET entry == IF domain \in DOMAIN limits THEN limits[domain] ELSE DomainLimit(default_rate)
        pruned == [entry EXCEPT
                      !.request_times = Retain(@, now, entry.window_duration)]
        limits1 == [d \in DOMAIN limits \cup {domain} |->
                       IF d = domain THEN pruned ELSE limits[d]]
        full == Len(pruned.request_times) >= pruned.max_requests
    IN  IF /\ full
           /\ pruned.request_times # <<>>
           /\ now - pruned.request_times[1] < pruned.window_duration
        THEN [limits |-> limits1,
              wait |-> Some(pruned.window_duration - (now - pruned.request_times[1])
                            + WaitMargin)]
        ELSE [limits |-> limits1, wait |-> None]

\* the re-prune after the sleep
wait_if_needed_reprune(limits, domain, now) ==
    IF domain \in DOMAIN limits
    THEN [limits EXCEPT ![domain].request_times = Retain(@, now, limits[domain].window_duration)]
    ELSE limits

\* "Record this request"
wait_if_needed_record(limits, domain, now) ==
    IF domain \in DOMAIN limits
    THEN [limits EXCEPT ![domain].request_times = Append(@, now)]
    ELSE limits

(***************************************************************************)
(* mod.rs: CouponEngine::process_batch                                     *)
(***************************************************************************)
MaxUrls == 3
MaxPermits == 2
MaxNow == 1

SchemeSeparator == <<":", "/", "/">>
HttpsScheme == <<"h", "t", "t", "p", "s">>
AmazonUrl == HttpsScheme \o SchemeSeparator \o ToLowercase(Amazon) \o DotCom \o <<"/", "d">>
TargetUrl == HttpsScheme \o SchemeSeparator \o ToLowercase(Target) \o DotCom
NotAUrl == <<"n", "o", "t", "-", "a", "-", "u", "r", "l">>
BatchUrls == {AmazonUrl, TargetUrl, NotAUrl}

Ok(v) == [kind |-> "Ok", value |-> v]
Err == [kind |-> "Err", value |-> <<>>]
JoinError == [kind |-> "JoinError", value |-> <<>>]

\* position of the first "://" in url, 0 when there is none
SchemeEnd(url) ==
    LET hits == {i \in 1..(Len(url) - 2) : SubSeq(url, i, i + 2) = SchemeSeparator}
    IN  IF hits = {} THEN 0 ELSE CHOOSE i \in hits : \A j \in hits : i <= j

\* CouponEngine::extract_domain: url::Url::parse fails on a string without a
\* scheme; the host runs from the "://" to the next "/", lower-cased
extract_domain(url) ==
    LET sep == SchemeEnd(url)
        rest == SubSeq(url, sep + 3, Len(url))
        slashes == {i \in 1..Len(rest) : rest[i] = "/"}
        stop == IF slashes = {} THEN Len(rest) + 1
                ELSE CHOOSE i \in slashes : \A j \in slashes : i <= j
    IN  IF sep <= 1 \/ ~(url[1] \in Uppers \cup Lowers) THEN Err
        ELSE Ok(ToLowercase(SubSeq(rest, 1, stop - 1)))

\* what a fetched page turns into in Parser::extract_coupons: the coupons it
\* extracts, an Err, or a panic
PageContents ==
    {[parse |-> "Ok", coupons |-> cs] :
        cs \in {<<>>, <<create_test_coupon(SAVE10, Amazon)>>,
                <<create_test_coupon(SAVE10, Amazon), EmptyCoupon>>}}
    \cup {[parse |-> "Err", coupons |-> <<>>], [parse |-> "Panic", coupons |-> <<>>]}

\* Scraper::fetch_content: every attempt on a string that is no URL fails; a
\* request to a URL fails or yields a page
fetch_content(url) ==
    IF extract_domain(url).kind = "Err" THEN {Err}
    ELSE {Err} \cup {Ok(content) : content \in PageContents}

\* the instant as the validator's wall clock reads it, in hours
WallClockHours(now) == now \div 36000

\* the task's body after the rate limiting: fetch, parse, validate
unit_result(fetched, now) ==
    IF fetched.kind = "Err" THEN Ok(<<>>)
    ELSE IF fetched.value.parse = "Panic" THEN JoinError
    ELSE IF fetched.value.parse = "Err" THEN Ok(<<>>)
    ELSE Ok(SelectSeq(fetched.value.coupons, LAMBDA c : is_valid(c, WallClockHours(now))))

\* mutant of acquire_ready: a permit is handed out whatever is left
acquire_ready_always(available) == TRUE

\* Semaphore::acquire completes when a permit is available
acquire_ready(available) == available > 0

\* mutant of drop_permit: the permit is not given back
drop_permit_leaks(available) == available

\* `_permit` goes out of scope when the task's body ends, by return or by
\* unwinding: the semaphore gets the permit back
drop_permit(available) == available + 1

Task(pc, rl_pc, wake, result) == [pc |-> pc, rl_pc |-> rl_pc, wake |-> wake, result |-> result]
Main(pc, joined, all_coupons, ret) ==
    [pc |-> pc, joined |-> joined, all_coupons |-> all_coupons, ret |-> ret]

BatchIdle ==
    /\ bUrls = <<>>
    /\ bMaxConcurrent = 0
    /\ bPermits = 0
    /\ bTasks = <<>>
    /\ bMain = Main("idle", 0, <<>>, None)
    /\ rlHolder = None
    /\ rlLimits = EmptyMap
    /\ bNow = 0

\* CouponEngine::new, then process_batch(urls) up to the creation of the semaphore
InitBatch ==
    /\ bUrls \in SeqsUpTo(BatchUrls, MaxUrls)
    /\ bMaxConcurrent \in 1..MaxPermits
    /\ bPermits = bMaxConcurrent
    /\ bTasks = <<>>
    /\ bMain = Main("spawn", 0, <<>>, None)
    /\ rlHolder = None
    /\ rlLimits = EmptyMap
    /\ bNow = 0

\* one turn of `for url in urls`: tokio::spawn, tasks.push
Spawn ==
    /\ bMain.pc = "spawn"
    /\ IF Len(bTasks) < Len(bUrls)
       THEN /\ bTasks' = Append(bTasks, Task("acquire", "none", 0, None))
            /\ UNCHANGED bMain
       ELSE /\ bMain' = [bMain EXCEPT !.pc = "join"]
            /\ UNCHANGED bTasks
    /\ UNCHANGED <<bUrls, bMaxConcurrent, bPermits, rlHolder, rlLimits, bNow>>

\* sem.acquire().await, then extract_domain
Acquire ==
    /\ \E t \in 1..Len(bTasks) :
          /\ bTasks[t].pc = "acquire"
          /\ acquire_ready(bPermits)
          /\ bPermits' = bPermits - 1
          /\ bTasks' = [bTasks EXCEPT ![t] =
                           IF extract_domain(bUrls[t]).kind = "Ok"
                           THEN Task("wait_if_needed", "lock_28", 0, None)
                           ELSE Task("fetch", "none", 0, None)]
    /\ UNCHANGED <<bUrls, bMaxConcurrent, bMain, rlHolder, rlLimits, bNow>>

\* rate_limiter.wait_if_needed(&domain), one await point at a time: the lock at
\* line 28 with the code up to the sleep or to line 63, the sleep, the lock at
\* line 53, the lock at line 63.  The guard taken at line 28 is dropped only
\* on the path that sleeps; otherwise it lives to the end of the function.
WaitIfNeeded ==
    /\ \E t \in 1..Len(bTasks) :
          /\ bTasks[t].pc = "wait_if_needed"
          /\ LET domain == extract_domain(bUrls[t]).value
                 check == wait_if_needed_check(rlLimits, rate_limit_per_domain, domain, bNow)
             IN  IF bTasks[t].rl_pc = "lock_28"
                 THEN /\ rlHolder = None
                      /\ rlLimits' = check.limits
                      /\ IF IsSome(check.wait)
                         THEN /\ rlHolder' = None
                              /\ bTasks' = [bTasks EXCEPT ![t].rl_pc = "sleep_50",
                                                          ![t].wake = bNow + Unwrap(check.wait)]
                         ELSE /\ rlHolder' = Some(t)
                              /\ bTasks' = [bTasks EXCEPT ![t].rl_pc = "lock_63"]
                 ELSE IF bTasks[t].rl_pc = "sleep_50"
                 THEN /\ bNow >= bTasks[t].wake
                      /\ bTasks' = [bTasks EXCEPT ![t].rl_pc = "lock_53"]
                      /\ UNCHANGED <<rlHolder, rlLimits>>
                 ELSE IF bTasks[t].rl_pc = "lock_53"
                 THEN /\ rlHolder = None
                      /\ rlLimits' = wait_if_needed_reprune(rlLimits, domain, bNow)
                      /\ bTasks' = [bTasks EXCEPT ![t].rl_pc = "lock_63"]
                      /\ UNCHANGED rlHolder
                 ELSE /\ rlHolder = None
                      /\ rlLimits' = wait_if_needed_record(rlLimits, domain, bNow)
                      /\ bTasks' = [bTasks EXCEPT ![t].rl_pc = "returned", ![t].pc = "fetch"]
                      /\ UNCHANGED rlHolder
    /\ UNCHANGED <<bUrls, bMaxConcurrent, bPermits, bMain, bNow>>

\* the rest of the task: fetch_content, extract_coupons, is_valid on each
\* coupon; the permit is dropped when the task ends, by return or by panic
Scrape ==
    /\ \E t \in 1..Len(bTasks) :
          /\ bTasks[t].pc = "fetch"
          /\ \E fetched \in fetch_content(bUrls[t]) :
                bTasks' = [bTasks EXCEPT ![t].pc = "done",
                                         ![t].result = Some(unit_result(fetched, bNow))]
    /\ bPermits' = drop_permit(bPermits)
    /\ UNCHANGED <<bUrls, bMaxConcurrent, bMain, rlHolder, rlLimits, bNow>>

\* one turn of `for task in tasks`: task.await, extend on Ok(Ok(coupons))
Join ==
    /\ bMain.pc = "join"
    /\ IF bMain.joined < Len(bTasks)
       THEN /\ bTasks[bMain.joined + 1].pc = "done"
            /\ LET result == Unwrap(bTasks[bMain.joined + 1].result)
               IN  bMain' = [bMain EXCEPT
                                !.joined = @ + 1,
                                !.all_coupons = IF result.kind = "Ok" THEN @ \o result.value
                                                ELSE @]
       ELSE bMain' = [bMain EXCEPT !.pc = "dedup"]
    /\ UNCHANGED <<bUrls, bMaxConcurrent, bPermits, bTasks, rlHolder, rlLimits, bNow>>

\* self.deduplicator.deduplicate(all_coupons).await? and Ok(unique_coupons)
Return ==
    /\ bMain.pc = "dedup"
    /\ \E unique_coupons \in deduplicate(DefaultStrategy, bMain.all_coupons) :
          bMain' = [bMain EXCEPT !.pc = "returned", !.ret = Some(Ok(unique_coupons))]
    /\ UNCHANGED <<bUrls, bMaxConcurrent, bPermits, bTasks, rlHolder, rlLimits, bNow>>

\* 100 ms pass
Tick ==
    /\ bNow < MaxNow
    /\ bNow' = bNow + 1
    /\ UNCHANGED <<bUrls, bMaxConcurrent, bPermits, bTasks, bMain, rlHolder, rlLimits>>

\* the tasks that have acquired a permit and have not finished
PermitHolders == {t \in 1..Len(bTasks) : bTasks[t].pc \in {"wait_if_needed", "fetch"}}

\* C3: during process_batch the units that hold a permit and have not finished
\* are never more than max_concurrent_requests, and every other unfinished
\* unit is suspended on acquire.
C3_AtMostMaxConcurrent ==
    /\ Cardinality(PermitHolders) <= bMaxConcurrent
    /\ bPermits = bMaxConcurrent - Cardinality(PermitHolders)
    /\ \A t \in 1..Len(bTasks) :
          (t \notin PermitHolders /\ bTasks[t].pc # "done") => bTasks[t].pc = "acquire"

\* C3 witness: every permit is out and one more unit waits on acquire
C3_Witness ==
    /\ bMain.pc \in {"spawn", "join"}
    /\ Cardinality(PermitHolders) = bMaxConcurrent
    /\ \E t \in 1..Len(bTasks) : bTasks[t].pc = "acquire"

\* the coupons of the units that ended with Ok, in task order
RECURSIVE OkCoupons(_)
OkCoupons(tasks) ==
    IF tasks = <<>> THEN <<>>
    ELSE LET result == Unwrap(Head(tasks).result)
         IN  (IF result.kind = "Ok" THEN result.value ELSE <<>>) \o OkCoupons(Tail(tasks))

\* a step of process_batch or of one of its tasks
BatchStep ==
    /\ Spawn \/ Acquire \/ WaitIfNeeded \/ Scrape \/ Join \/ Return
    /\ UNCHANGED batchFrame

\* the units that ended without coupons: fetch or parse failed, or a panic
EndedEmpty ==
    {t \in 1..Len(bTasks) :
        /\ bTasks[t].pc = "done"
        /\ Unwrap(bTasks[t].result) \in {Ok(<<>>), JoinError}}

\* C4: process_batch does not fail because of a single URL: once a unit has
\* failed, the batch still runs on to its return (a step is possible, or a task
\* sleeps until its time comes), and what it returns is Ok with the
\* deduplicated coupons of the other units, the failed unit adding none.
C4_FailedUnitDoesNotStopBatch ==
    EndedEmpty # {} =>
        IF bMain.pc = "returned"
        THEN /\ Unwrap(bMain.ret).kind = "Ok"
             /\ Unwrap(bMain.ret).value \in deduplicate(DefaultStrategy, OkCoupons(bTasks))
        ELSE \/ ENABLED BatchStep
             \/ \E t \in 1..Len(bTasks) : bTasks[t].rl_pc = "sleep_50"

(***************************************************************************)
(* rate_limiter.rs: RateLimiter called directly                            *)
(***************************************************************************)
MaxRlCalls == 3
RlRates == {1, 2}
RlCallerIds == {1, 2}
ExampleCom == "example.com"
RlDomains == {ExampleCom, "other.com"}

batchOnlyVars == <<bUrls, bMaxConcurrent, bPermits, bTasks, bMain>>

\* a caller task: where it is (pc "idle" or "wait_if_needed", and the await
\* point inside wait_if_needed) and the domain it passed
Caller(pc, domain, rl_pc, wake) == [pc |-> pc, domain |-> domain, rl_pc |-> rl_pc, wake |-> wake]
\* a call that has returned
RlCall(op, domain, arg, ret) == [op |-> op, domain |-> domain, arg |-> arg, ret |-> ret]

set_domain_limit(limits, domain, max_requests_per_minute) ==
    [d \in DOMAIN limits \cup {domain} |->
        IF d = domain THEN DomainLimit(max_requests_per_minute) ELSE limits[d]]

get_current_rate(limits, domain, now) ==
    IF domain \in DOMAIN limits
    THEN Some(Len(Retain(limits[domain].request_times, now, limits[domain].window_duration)))
    ELSE None

reset_domain(limits, domain) ==
    IF domain \in DOMAIN limits
    THEN [limits EXCEPT ![domain].request_times = <<>>]
    ELSE limits

RLIdle ==
    /\ rlDefaultRate = 0
    /\ rlCallers = <<>>
    /\ rlHistory = <<>>

\* RateLimiter::new(default_rate_per_minute)
InitRL ==
    /\ rlDefaultRate \in RlRates
    /\ rlCallers = [c \in RlCallerIds |-> Caller("idle", ExampleCom, "none", 0)]
    /\ rlHistory = <<>>

InWaitIfNeeded == {c \in DOMAIN rlCallers : rlCallers[c].pc = "wait_if_needed"}

\* a task calls wait_if_needed(domain)
RlEnter ==
    /\ Len(rlHistory) + Cardinality(InWaitIfNeeded) < MaxRlCalls
    /\ \E c \in DOMAIN rlCallers, domain \in RlDomains :
          /\ rlCallers[c].pc = "idle"
          /\ rlCallers' = [rlCallers EXCEPT ![c] = Caller("wait_if_needed", domain, "lock_28", 0)]
    /\ UNCHANGED <<rlDefaultRate, rlHistory, rlHolder, rlLimits, bNow, batchOnlyVars>>

\* wait_if_needed(domain) of a caller, one await point at a time, as in
\* WaitIfNeeded; the guards are owned by the caller's number
RlWaitIfNeeded ==
    /\ \E c \in InWaitIfNeeded :
          LET domain == rlCallers[c].domain
              check == wait_if_needed_check(rlLimits, rlDefaultRate, domain, bNow)
          IN  IF rlCallers[c].rl_pc = "lock_28"
              THEN /\ rlHolder = None
                   /\ rlLimits' = check.limits
                   /\ IF IsSome(check.wait)
                      THEN /\ rlHolder' = None
                           /\ rlCallers' = [rlCallers EXCEPT ![c].rl_pc = "sleep_50",
                                                             ![c].wake = bNow + Unwrap(check.wait)]
                      ELSE /\ rlHolder' = Some(c)
                           /\ rlCallers' = [rlCallers EXCEPT ![c].rl_pc = "lock_63"]
                   /\ UNCHANGED rlHistory
              ELSE IF rlCallers[c].rl_pc = "sleep_50"
              THEN /\ bNow >= rlCallers[c].wake
                   /\ rlCallers' = [rlCallers EXCEPT ![c].rl_pc = "lock_53"]
                   /\ UNCHANGED <<rlHolder, rlLimits, rlHistory>>
              ELSE IF rlCallers[c].rl_pc = "lock_53"
              THEN /\ rlHolder = None
                   /\ rlLimits' = wait_if_needed_reprune(rlLimits, domain, bNow)
                   /\ rlCallers' = [rlCallers EXCEPT ![c].rl_pc = "lock_63"]
                   /\ UNCHANGED <<rlHolder, rlHistory>>
              ELSE /\ rlHolder = None
                   /\ rlLimits' = wait_if_needed_record(rlLimits, domain, bNow)
                   /\ rlCallers' = [rlCallers EXCEPT ![c] = Caller("idle", domain, "none", 0)]
                   /\ rlHistory' = Append(rlHistory, RlCall("wait_if_needed", domain, 0, None))
                   /\ UNCHANGED rlHolder
    /\ UNCHANGED <<rlDefaultRate, bNow, batchOnlyVars>>

RlSetDomainLimit ==
    /\ Len(rlHistory) + Cardinality(InWaitIfNeeded) < MaxRlCalls
    /\ rlHolder = None
    /\ \E domain \in RlDomains, max_requests \in RlRates :
          /\ rlLimits' = set_domain_limit(rlLimits, domain, max_requests)
          /\ rlHistory' = Append(rlHistory, RlCall("set_domain_limit", domain, max_requests, None))
    /\ UNCHANGED <<rlDefaultRate, rlCallers, rlHolder, bNow, batchOnlyVars>>

RlGetCurrentRate ==
    /\ Len(rlHistory) + Cardinality(InWaitIfNeeded) < MaxRlCalls
    /\ rlHolder = None
    /\ \E domain \in RlDomains :
          rlHistory' = Append(rlHistory, RlCall("get_current_rate", domain, 0,
                                                get_current_rate(rlLimits, domain, bNow)))
    /\ UNCHANGED <<rlDefaultRate, rlCallers, rlHolder, rlLimits, bNow, batchOnlyVars>>

RlResetDomain ==
    /\ Len(rlHistory) + Cardinality(InWaitIfNeeded) < MaxRlCalls
    /\ rlHolder = None
    /\ \E domain \in RlDomains :
          /\ rlLimits' = reset_domain(rlLimits, domain)
          /\ rlHistory' = Append(rlHistory, RlCall("reset_domain", domain, 0, None))
    /\ UNCHANGED <<rlDefaultRate, rlCallers, rlHolder, bNow, batchOnlyVars>>

\* a step of a call in progress
RlStep == RlWaitIfNeeded /\ UNCHANGED rlFrame
RlAsleep == \E c \in InWaitIfNeeded : rlCallers[c].rl_pc = "sleep_50"

\* tests::test_basic_rate_limiting: n wait_if_needed calls, then get_current_rate
BasicRateLimitingCalls(domain, n, ret) ==
    [k \in 1..n |-> RlCall("wait_if_needed", domain, 0, None)]
    \o <<RlCall("get_current_rate", domain, 0, ret)>>

\* C12: on a fresh RateLimiter with limit N, N consecutive wait_if_needed
\* calls for one domain all return (a call in progress can always go on: a
\* step of it is possible, or it sleeps until its time comes), and
\* get_current_rate for that domain then returns N.
C12_CallsReturnAndAreCounted ==
    /\ InWaitIfNeeded # {} => (ENABLED RlStep) \/ RlAsleep
    /\ \A domain \in RlDomains :
          (/\ Len(rlHistory) = rlDefaultRate + 1
           /\ rlHistory = BasicRateLimitingCalls(domain, rlDefaultRate,
                                                 rlHistory[Len(rlHistory)].ret))
              => rlHistory[Len(rlHistory)].ret = Some(rlDefaultRate)

(***************************************************************************)
(* rate_limiter.rs: BurstRateLimiter                                       *)
(* Time is counted in units of 10 ms and relative to the events that read  *)
(* it: a bucket carries the time since its last_refill, a sleeper the time *)
(* it has left.  Token amounts are in 1/6000 of a token, so that a bucket  *)
(* with default_rate r per minute gains exactly r of them in 10 ms.        *)
(***************************************************************************)
MaxBurst == 2
MaxTbCalls == 3
TimeUnitsPerMinute == 6000
SleepMargin == 1
BurstRates == {3000, 6000}
TbDomains == {ExampleCom, "other.com"}
SleepUnits == {1, 2}
TbWaiterIds == {1}
\* whole numbers of tokens a caller asks for
TokenRequests == 0..(MaxBurst + 1)

CeilDiv(a, b) == (a + b - 1) \div b

TokenBucket(capacity, tokens, refill_rate, age) ==
    [capacity |-> capacity, tokens |-> tokens, refill_rate |-> refill_rate, age |-> age]

\* the bucket that acquire inserts for a domain it has not seen, created empty
NewTokenBucketEmpty(default_rate, default_burst) ==
    TokenBucket(default_burst * TimeUnitsPerMinute, 0, default_rate, 0)

\* the bucket that acquire inserts for a domain it has not seen
NewTokenBucket(default_rate, default_burst) ==
    TokenBucket(default_burst * TimeUnitsPerMinute, default_burst * TimeUnitsPerMinute,
                default_rate, 0)

InsufficientTokens(available, requested, wait_time) ==
    [kind |-> "Err", available |-> available, requested |-> requested, wait_time |-> wait_time]

\* the time after which a bucket is full whatever it held
FullAfter(bucket) == CeilDiv(bucket.capacity, bucket.refill_rate)

\* mutant of acquire: the refill is not capped at the capacity
acquire_without_cap(buckets, default_rate, default_burst, domain, tokens) ==
    LET bucket == IF domain \in DOMAIN buckets THEN buckets[domain]
                  ELSE NewTokenBucket(default_rate, default_burst)
        elapsed == bucket.age
        refilled == bucket.tokens + elapsed * bucket.refill_rate
        requested == tokens * TimeUnitsPerMinute
        enough == refilled >= requested
        after == [bucket EXCEPT !.tokens = IF enough THEN refilled - requested ELSE refilled,
                                !.age = 0]
    IN  [buckets |-> [d \in DOMAIN buckets \cup {domain} |->
                         IF d = domain THEN after ELSE buckets[d]],
         ret |-> IF enough THEN Ok(<<>>)
                 ELSE InsufficientTokens(refilled, requested,
                                         CeilDiv(requested - refilled, bucket.refill_rate))]

\* mutant of acquire: succeeds only with more tokens than requested
acquire_needs_more(buckets, default_rate, default_burst, domain, tokens) ==
    LET bucket == IF domain \in DOMAIN buckets THEN buckets[domain]
                  ELSE NewTokenBucket(default_rate, default_burst)
        elapsed == bucket.age
        refilled == Min2(bucket.tokens + elapsed * bucket.refill_rate, bucket.capacity)
        requested == tokens * TimeUnitsPerMinute
        enough == refilled > requested
        after == [bucket EXCEPT !.tokens = IF enough THEN refilled - requested ELSE refilled,
                                !.age = 0]
    IN  [buckets |-> [d \in DOMAIN buckets \cup {domain} |->
                         IF d = domain THEN after ELSE buckets[d]],
         ret |-> IF enough THEN Ok(<<>>)
                 ELSE InsufficientTokens(refilled, requested,
                                         CeilDiv(requested - refilled, bucket.refill_rate))]

\* BurstRateLimiter::acquire: the map afterwards and the result
acquire(buckets, default_rate, default_burst, domain, tokens) ==
    LET bucket == IF domain \in DOMAIN buckets THEN buckets[domain]
                  ELSE NewTokenBucket(default_rate, default_burst)
        elapsed == bucket.age
        refilled == Min2(bucket.tokens + elapsed * bucket.refill_rate, bucket.capacity)
        requested == tokens * TimeUnitsPerMinute
        enough == refilled >= requested
        after == [bucket EXCEPT !.tokens = IF enough THEN refilled - requested ELSE refilled,
                                !.age = 0]
    IN  [buckets |-> [d \in DOMAIN buckets \cup {domain} |->
                         IF d = domain THEN after ELSE buckets[d]],
         ret |-> IF enough THEN Ok(<<>>)
                 ELSE InsufficientTokens(refilled, requested,
                                         CeilDiv(requested - refilled, bucket.refill_rate))]

Waiter(pc, domain, tokens, left) == [pc |-> pc, domain |-> domain, tokens |-> tokens, left |-> left]
TbCall(op, domain, tokens, ret) == [op |-> op, domain |-> domain, tokens |-> tokens, ret |-> ret]

TBIdle ==
    /\ tbDefaultRate = 0
    /\ tbDefaultBurst = 0
    /\ tbBuckets = EmptyMap
    /\ tbWaiters = <<>>
    /\ tbHistory = <<>>

\* BurstRateLimiter::new(default_rate_per_minute, default_burst)
InitTB ==
    /\ tbDefaultRate \in BurstRates
    /\ tbDefaultBurst \in 1..MaxBurst
    /\ tbBuckets = EmptyMap
    /\ tbWaiters = [w \in TbWaiterIds |-> Waiter("idle", ExampleCom, 1, 0)]
    /\ tbHistory = <<>>

InAcquireOrWait == {w \in DOMAIN tbWaiters : tbWaiters[w].pc # "idle"}

\* time passes: the buckets' last_refill and the sleepers' deadlines come
\* `units` nearer
Elapse(units) ==
    /\ tbBuckets' = [d \in DOMAIN tbBuckets |->
                        [tbBuckets[d] EXCEPT !.age = Min2(@ + units, FullAfter(tbBuckets[d]))]]
    /\ tbWaiters' = [w \in DOMAIN tbWaiters |->
                        [tbWaiters[w] EXCEPT !.left = Max2(@ - units, 0)]]

\* a call of acquire(domain, tokens), written down
TbAcquire ==
    /\ Len(tbHistory) < MaxTbCalls
    /\ \E domain \in TbDomains, tokens \in TokenRequests :
          LET r == acquire(tbBuckets, tbDefaultRate, tbDefaultBurst, domain, tokens)
          IN  /\ tbBuckets' = r.buckets
              /\ tbHistory' = Append(tbHistory, TbCall("acquire", domain, tokens, r.ret))
    /\ UNCHANGED <<tbDefaultRate, tbDefaultBurst, tbWaiters>>

\* the caller lets time pass between two calls, written down
TbSleep ==
    /\ Len(tbHistory) < MaxTbCalls
    /\ \E units \in SleepUnits :
          /\ Elapse(units)
          /\ tbHistory' = Append(tbHistory, TbCall("sleep", ExampleCom, units, None))
    /\ UNCHANGED <<tbDefaultRate, tbDefaultBurst>>

\* BurstRateLimiter::new with the faster of the two rates
InitBurst == InitTB /\ \A rate \in BurstRates : tbDefaultRate >= rate

\* SpecBurst keeps no log: there tbHistory holds the acquire call that a
\* task has made and that has not yet returned
BurstEnter ==
    /\ tbHistory = <<>>
    /\ \E domain \in TbDomains, tokens \in TokenRequests :
          tbHistory' = <<TbCall("acquire", domain, tokens, None)>>
    /\ UNCHANGED <<tbDefaultRate, tbDefaultBurst, tbBuckets, tbWaiters>>

\* the acquire call in progress runs and returns
BurstAcquire ==
    /\ tbHistory # <<>>
    /\ LET call == tbHistory[1]
           r == acquire(tbBuckets, tbDefaultRate, tbDefaultBurst, call.domain, call.tokens)
       IN  tbBuckets' = r.buckets
    /\ tbHistory' = <<>>
    /\ UNCHANGED <<tbDefaultRate, tbDefaultBurst, tbWaiters>>

\* a task calls acquire_or_wait(domain, tokens)
TbEnter ==
    /\ \E w \in DOMAIN tbWaiters, domain \in TbDomains, tokens \in TokenRequests :
          /\ tbWaiters[w].pc = "idle"
          /\ tbWaiters' = [tbWaiters EXCEPT ![w] = Waiter("acquire", domain, tokens, 0)]
    /\ UNCHANGED <<tbDefaultRate, tbDefaultBurst, tbBuckets, tbHistory>>

\* one turn of the loop of acquire_or_wait for waiter w: the acquire and what
\* follows it, or the end of the sleep
AcquireOrWaitStep(w) ==
    /\ w \in InAcquireOrWait
    /\ LET r == acquire(tbBuckets, tbDefaultRate, tbDefaultBurst,
                        tbWaiters[w].domain, tbWaiters[w].tokens)
       IN  IF tbWaiters[w].pc = "acquire"
           THEN /\ tbBuckets' = r.buckets
                /\ tbWaiters' = [tbWaiters EXCEPT ![w] =
                       IF r.ret.kind = "Ok"
                       THEN [@ EXCEPT !.pc = "idle"]
                       ELSE [@ EXCEPT !.pc = "sleep", !.left = r.ret.wait_time + SleepMargin]]
           ELSE /\ tbWaiters[w].left = 0
                /\ tbWaiters' = [tbWaiters EXCEPT ![w].pc = "acquire"]
                /\ UNCHANGED tbBuckets
    /\ UNCHANGED <<tbDefaultRate, tbDefaultBurst, tbHistory>>

TbAcquireOrWait == \E w \in TbWaiterIds : AcquireOrWaitStep(w)

\* 10 ms pass
TbTick ==
    /\ Elapse(1)
    /\ UNCHANGED <<tbDefaultRate, tbDefaultBurst, tbHistory>>

\* the acquire calls for a domain among the calls made so far
AcquireCalls(domain) == SelectSeq(tbHistory, LAMBDA call : call.domain = domain)
NoTimeElapsed == \A k \in 1..Len(tbHistory) : tbHistory[k].op = "acquire"

\* C13: a newly created token bucket starts full: as long as no time elapses
\* and acquire(domain, 1) is all that is called for the domain, its first
\* default_burst calls succeed and every later one fails with
\* InsufficientTokens, no token being available.
C13_NewBucketStartsFull ==
    NoTimeElapsed =>
        \A domain \in TbDomains :
            LET calls == AcquireCalls(domain)
            IN  \A k \in 1..Len(calls) :
                    (\A j \in 1..k : calls[j].tokens = 1)
                        => calls[k].ret = IF k <= tbDefaultBurst THEN Ok(<<>>)
                                          ELSE InsufficientTokens(0, TimeUnitsPerMinute,
                                                   CeilDiv(TimeUnitsPerMinute, tbDefaultRate))

C13_Witness ==
    /\ NoTimeElapsed
    /\ Len(tbHistory) = tbDefaultBurst + 1
    /\ \A k \in 1..Len(tbHistory) :
          /\ tbHistory[k].domain = ExampleCom
          /\ tbHistory[k].tokens = 1
          /\ tbHistory[k].ret.kind = IF k <= tbDefaultBurst THEN "Ok" ELSE "Err"

\* what acquire finds in the bucket of a domain after the refill
Refilled(domain) ==
    LET bucket == IF domain \in DOMAIN tbBuckets THEN tbBuckets[domain]
                  ELSE NewTokenBucket(tbDefaultRate, tbDefaultBurst)
    IN  Min2(bucket.tokens + bucket.age * bucket.refill_rate, bucket.capacity)

\* waiter w returns from acquire_or_wait in this step
AcquireOrWaitReturns(w) == tbWaiters[w].pc = "acquire" /\ tbWaiters'[w].pc = "idle"

\* C14: acquire_or_wait(domain, n) sleeps and retries acquire until one
\* succeeds: when it returns, n tokens have been deducted from the domain's
\* bucket, and for every requested n > 0 it eventually returns.
C14_AcquireOrWaitReturns ==
    /\ [][\A w \in TbWaiterIds :
             AcquireOrWaitReturns(w) =>
                 tbBuckets'[tbWaiters[w].domain].tokens
                     = Refilled(tbWaiters[w].domain) - tbWaiters[w].tokens * TimeUnitsPerMinute]_vars
    /\ \A w \in TbWaiterIds : (tbWaiters[w].pc # "idle") ~> (tbWaiters[w].pc = "idle")

(***************************************************************************)
(* rate_limiter.rs: DistributedRateLimiter                                 *)
(* Its local_limiter is the RateLimiter above: a caller that falls back    *)
(* goes on as a caller of wait_if_needed.                                  *)
(***************************************************************************)
MaxDlCalls == 3
\* seconds and 100 ms units
StoreWindow == 60
StoreWait == 10

\* format!("rate_limit:{}", domain)
StoreKey(domain) == <<"rate_limit:", domain>>
\* what the store answers to a call
StoreOutcomes(client) ==
    IF client THEN {"no_connection", "command_failed", "ok"} ELSE {"no_client"}
\* the atomic pipeline INCR key 1, EXPIRE key window
incr_expire(store, key, window) ==
    [k \in DOMAIN store \cup {key} |->
        IF k = key
        THEN [count |-> (IF key \in DOMAIN store THEN store[key].count ELSE 0) + 1,
              ttl |-> window]
        ELSE store[k]]

DlCall(domain, store, local) == [domain |-> domain, store |-> store, local |-> local]

DLIdle ==
    /\ dlClient = FALSE
    /\ dlStore = EmptyMap
    /\ dlHistory = <<>>

\* DistributedRateLimiter::new(redis_url, default_rate)
InitDL ==
    /\ InitRL
    /\ dlClient \in BOOLEAN
    /\ dlStore = EmptyMap
    /\ dlHistory = <<>>

\* DistributedRateLimiter::wait_if_needed(domain) up to its first await or
\* its return: the connection and the pipeline are blocking calls.  When the
\* command fails the store may or may not have executed it.
DlWaitIfNeeded ==
    /\ Len(dlHistory) < MaxDlCalls
    /\ \E c \in DOMAIN rlCallers, domain \in RlDomains,
          outcome \in StoreOutcomes(dlClient), executed \in BOOLEAN :
          LET key == StoreKey(domain)
              counted == incr_expire(dlStore, key, StoreWindow)
              fallback == outcome \in {"no_client", "no_connection"}
          IN  /\ rlCallers[c].pc = "idle"
              /\ outcome \in {"no_client", "no_connection"} => ~executed
              /\ outcome = "ok" => executed
              /\ dlStore' = IF executed THEN counted ELSE dlStore
              /\ rlCallers' = [rlCallers EXCEPT ![c] =
                     IF fallback
                     THEN Caller("wait_if_needed", domain, "lock_28", 0)
                     ELSE IF outcome = "ok" /\ counted[key].count > rlDefaultRate
                     THEN Caller("dl_sleep", domain, "none", StoreWait)
                     ELSE Caller("idle", domain, "none", 0)]
              /\ dlHistory' = Append(dlHistory, DlCall(domain, outcome, fallback))
    /\ UNCHANGED <<dlClient, rlDefaultRate, rlHistory, rlHolder, rlLimits, bNow, batchOnlyVars>>

\* the end of sleep(wait_time) and the return
DlWake ==
    /\ \E c \in DOMAIN rlCallers :
          /\ rlCallers[c].pc = "dl_sleep"
          /\ rlCallers[c].wake = 0
          /\ rlCallers' = [rlCallers EXCEPT ![c].pc = "idle"]
    /\ UNCHANGED <<dlVars, rlDefaultRate, rlHistory, rlHolder, rlLimits, bNow, batchOnlyVars>>

\* 100 ms pass for the sleepers of the distributed limiter
DlTick ==
    /\ \E c \in DOMAIN rlCallers : rlCallers[c].pc = "dl_sleep" /\ rlCallers[c].wake > 0
    /\ rlCallers' = [c \in DOMAIN rlCallers |->
                        IF rlCallers[c].pc = "dl_sleep"
                        THEN [rlCallers[c] EXCEPT !.wake = Max2(@ - 1, 0)]
                        ELSE rlCallers[c]]
    /\ UNCHANGED <<dlVars, rlDefaultRate, rlHistory, rlHolder, rlLimits, bNow, batchOnlyVars>>

\* C15: DistributedRateLimiter.wait_if_needed applies the local
\* sliding-window limiter whenever the shared store fails: when no connection
\* can be obtained, and when the increment/expire command fails on an open
\* connection.
C15_FallsBackOnStoreFailure ==
    \A k \in 1..Len(dlHistory) :
        dlHistory[k].store \in {"no_connection", "command_failed"} => dlHistory[k].local

(***************************************************************************)
(* mod.rs: process_batch abandoned by its caller                           *)
(***************************************************************************)
\* the caller drops the future of process_batch while it is suspended at
\* `task.await`: the JoinHandles in `tasks` are dropped with it, which
\* detaches the spawned tasks
Drop ==
    /\ bMain.pc = "join"
    /\ bMain.joined < Len(bTasks)
    /\ bTasks[bMain.joined + 1].pc # "done"
    /\ bMain' = [bMain EXCEPT !.pc = "dropped"]
    /\ UNCHANGED <<bUrls, bMaxConcurrent, bPermits, bTasks, rlHolder, rlLimits, bNow>>

(***************************************************************************)
(* scraper.rs: Scraper::fetch_content                                      *)
(***************************************************************************)
MaxRetryAttempts == 3
BackoffBaseMillis == 1000
MinSuccessStatus == 200
MaxSuccessStatus == 299

\* an error: its message and, for format!("HTTP error: {}", status), the status
FetchError(message, status) == [message |-> message, status |-> status]
Failed(error) == [kind |-> "Err", value |-> error]
TransportError == [kind |-> "transport_error", status |-> 0, body |-> ""]
Response(status, body) == [kind |-> "response", status |-> status, body |-> body]
\* what the network answers to one request
Responses ==
    {TransportError, Response(200, "<html>"), Response(200, ""), Response(404, "<html>"),
     Response(500, "")}

\* Scraper::fetch_with_client on the answer of the network
fetch_with_client(response) ==
    IF response.kind = "transport_error" THEN Failed(FetchError("reqwest::Error", 0))
    ELSE IF ~(response.status >= MinSuccessStatus /\ response.status <= MaxSuccessStatus)
    THEN Failed(FetchError("HTTP error: ", response.status))
    ELSE IF response.body = "" THEN Failed(FetchError("Empty response content", 0))
    ELSE Ok(response.body)

\* mutant of retry_loop_continues: one attempt more
retry_loop_continues_once_more(attempt, retry_attempts) == attempt <= retry_attempts

\* `for attempt in 0..self.config.retry_attempts`
retry_loop_continues(attempt, retry_attempts) == attempt < retry_attempts

\* Duration::from_millis(1000 * 2_u64.pow(attempt))
backoff_millis(attempt) == BackoffBaseMillis * 2^attempt

ScraperConfig(retry_attempts, proxy_rotation_enabled) ==
    [retry_attempts |-> retry_attempts, proxy_rotation_enabled |-> proxy_rotation_enabled]
Slept(millis) == [kind |-> "sleep", millis |-> millis, proxy |-> None, outcome |-> None]
Requested(proxy, outcome) ==
    [kind |-> "request", millis |-> 0, proxy |-> proxy, outcome |-> Some(outcome)]

FetchIdle ==
    /\ fConfig = ScraperConfig(0, FALSE)
    /\ fAttempt = 0
    /\ fLastError = None
    /\ fLog = <<>>
    /\ fPc = "idle"
    /\ fRet = None

\* Scraper::new(config), then fetch_content(url) up to the loop
InitFetch ==
    /\ fConfig \in {ScraperConfig(n, p) : n \in 0..MaxRetryAttempts, p \in BOOLEAN}
    /\ fAttempt = 0
    /\ fLastError = None
    /\ fLog = <<>>
    /\ fPc = "loop"
    /\ fRet = None

\* the head of the loop: the backoff sleep of a further attempt, or the end of
\* the loop with the last error
FetchLoop ==
    /\ fPc = "loop"
    /\ IF retry_loop_continues(fAttempt, fConfig.retry_attempts)
       THEN /\ fLog' = IF fAttempt > 0 THEN Append(fLog, Slept(backoff_millis(fAttempt)))
                       ELSE fLog
            /\ fPc' = "request"
            /\ UNCHANGED fRet
       ELSE /\ fRet' = Some(IF IsSome(fLastError) THEN Failed(Unwrap(fLastError))
                            ELSE Failed(FetchError("All retry attempts failed", 0)))
            /\ fPc' = "returned"
            /\ UNCHANGED fLog
    /\ UNCHANGED <<fConfig, fAttempt, fLastError>>

\* fetch_with_client(client, url, &user_agent).await and the match on it; the
\* request goes out through the chosen Client, which has no proxy
FetchRequest ==
    /\ fPc = "request"
    /\ \E response \in Responses :
          LET outcome == fetch_with_client(response)
          IN  /\ fLog' = Append(fLog, Requested(None, outcome))
              /\ IF outcome.kind = "Ok"
                 THEN /\ fRet' = Some(Ok(outcome.value))
                      /\ fPc' = "returned"
                      /\ UNCHANGED <<fAttempt, fLastError>>
                 ELSE /\ fLastError' = Some(outcome.value)
                      /\ fAttempt' = fAttempt + 1
                      /\ fPc' = "loop"
                      /\ UNCHANGED fRet
    /\ UNCHANGED fConfig

\* the requests issued so far, in order
Requests == SelectSeq(fLog, LAMBDA entry : entry.kind = "request")
OutcomeOf(request) == Unwrap(request.outcome)

\* C19: fetch_content issues at most retry_attempts requests for one URL; it
\* issues no request after a successful one and returns the content of that
\* one; if every attempt fails it has made retry_attempts of them and returns
\* the error of the last (with no attempt at all, a fixed error).
C19_BoundedRetries ==
    LET n == Len(Requests)
    IN  /\ n <= fConfig.retry_attempts
        /\ \A k \in 1..(n - 1) : OutcomeOf(Requests[k]).kind = "Err"
        /\ fPc = "returned" =>
              IF n > 0 /\ OutcomeOf(Requests[n]).kind = "Ok"
              THEN fRet = Some(Ok(OutcomeOf(Requests[n]).value))
              ELSE /\ n = fConfig.retry_attempts
                   /\ fRet = Some(IF n > 0 THEN OutcomeOf(Requests[n])
                                  ELSE Failed(FetchError("All retry attempts failed", 0)))

\* C19 witness: three attempts that failed in different ways, the error of
\* the third returned
C19_Witness ==
    /\ fPc = "returned"
    /\ Len(Requests) = 3
    /\ OutcomeOf(Requests[1]) # OutcomeOf(Requests[3])
    /\ OutcomeOf(Requests[2]) # OutcomeOf(Requests[3])
    /\ fRet = Some(OutcomeOf(Requests[3]))
    /\ Unwrap(fRet).kind = "Err"

\* the calls of an operation that the proxy pool has seen
PoolCalls(ops) == SelectSeq(pmHistory, LAMBDA call : call.op \in ops)

\* C20: when proxy_rotation_enabled is true, every fetch attempt binds the
\* next proxy obtained from the proxy pool and reports the outcome to the
\* pool, mark_failure on a transport error and mark_success on a 2xx response.
C20_AttemptsUseProxyPool ==
    fConfig.proxy_rotation_enabled =>
        /\ Len(PoolCalls({"get_next_proxy"})) = Len(Requests)
        /\ Len(PoolCalls({"mark_success"}))
               = Len(SelectSeq(Requests, LAMBDA r : OutcomeOf(r).kind = "Ok"))
        /\ Len(PoolCalls({"mark_failure"}))
               = Len(SelectSeq(Requests, LAMBDA r : OutcomeOf(r) = Failed(FetchError("reqwest::Error", 0))))

(***************************************************************************)
(* SpecRot: get_next_proxy on a manager whose rotation interval is longer  *)
(* than the time between two calls                                         *)
(***************************************************************************)
MaxRotCalls == 8

\* a rotation interval of two seconds, the calling task sleeps one second
RotConfig == ProxyManagerConfig(TestRotationInterval + 1, DefaultMaxFailures, TestRetryAfter)
RotUrls == ProxyUrls \cup {"http://proxy3.test.com:8080"}

InitRot ==
    /\ pmProxies = <<>>
    /\ pmFailed = <<>>
    /\ pmNow = 0
    /\ pmConfig = RotConfig
    /\ pmHistory = <<>>

RotAddProxy ==
    /\ Len(pmHistory) < MaxRotCalls
    /\ \E url \in RotUrls :
          /\ url \notin {pmProxies[k].url : k \in 1..Len(pmProxies)}
          /\ pmProxies' = add_proxy(pmProxies, url)
          /\ pmHistory' = Append(pmHistory, Call("add_proxy", <<url>>, 0, None))
    /\ UNCHANGED <<pmFailed, pmNow, pmConfig>>

RotGetNextProxy ==
    /\ Len(pmHistory) < MaxRotCalls
    /\ LET r == get_next_proxy(pmProxies, pmFailed, pmConfig, pmNow)
       IN  /\ pmProxies' = r.proxies
           /\ pmFailed' = r.failed
           /\ pmHistory' = Append(pmHistory, Call("get_next_proxy", <<>>, 0, r.ret))
    /\ UNCHANGED <<pmNow, pmConfig>>

RotSleep ==
    /\ Len(pmHistory) < MaxRotCalls
    /\ pmNow' = pmNow + TestRotationInterval
    /\ pmHistory' = Append(pmHistory, Call("sleep", <<>>, TestRotationInterval, None))
    /\ UNCHANGED <<pmProxies, pmFailed, pmConfig>>

(***************************************************************************)
(* proxy_manager.rs: concurrent calls on one ProxyManager                  *)
(* A call is followed from one `.lock().await` to the next: a step takes   *)
(* the mutex the task waits for and runs on to the next await or to the    *)
(* end of the function, where the guards are dropped.                      *)
(***************************************************************************)
MaxLockTasks == 3
LockTaskIds == 1..MaxLockTasks
LockOps == {"mark_failure", "get_next_proxy", "get_stats"}

\* a task and the await point it is at: "idle", "done", or the line of the lock
LockTask(op, url, pc) == [op |-> op, url |-> url, pc |-> pc]

LockIdle ==
    /\ lkTasks = <<>>
    /\ lkProxiesGuard = None
    /\ lkFailedGuard = None

\* a manager with the two test proxies, on which the tasks are about to call
InitLock ==
    /\ pmProxies = add_proxies(<<>>, <<"http://proxy1.test.com:8080",
                                      "http://proxy2.test.com:8080">>)
    /\ pmFailed = <<>>
    /\ pmNow = 0
    /\ pmConfig \in {TestProxyManagerConfig, ProxyManagerConfig(TestRotationInterval, 1, 0)}
    /\ pmHistory = <<>>
    /\ lkTasks = [t \in LockTaskIds |-> LockTask("none", "", "idle")]
    /\ lkProxiesGuard = None
    /\ lkFailedGuard = None

\* a task calls mark_failure(url, reason), get_next_proxy() or get_stats() and
\* reaches the first lock of the call
LockCall ==
    /\ \E t \in LockTaskIds, op \in LockOps, url \in ProxyUrls :
          /\ lkTasks[t].pc = "idle"
          /\ op # "mark_failure" => url = "http://proxy1.test.com:8080"
          /\ lkTasks' = [lkTasks EXCEPT ![t] =
                LockTask(op, url, IF op = "get_next_proxy" THEN "lock_187" ELSE
                                  IF op = "mark_failure" THEN "lock_158" ELSE "lock_215")]
    /\ UNCHANGED <<pmVars, lkProxiesGuard, lkFailedGuard>>

\* mark_failure: self.proxies.lock() at line 158, self.failed_proxies.lock()
\* at line 159, then the body; both guards are dropped at the end
LockMarkFailure ==
    /\ \E t \in LockTaskIds :
          /\ lkTasks[t].op = "mark_failure"
          /\ IF lkTasks[t].pc = "lock_158"
             THEN /\ lkProxiesGuard = None
                  /\ lkProxiesGuard' = Some(t)
                  /\ lkTasks' = [lkTasks EXCEPT ![t].pc = "lock_159"]
                  /\ UNCHANGED <<lkFailedGuard, pmProxies, pmFailed>>
             ELSE /\ lkTasks[t].pc = "lock_159"
                  /\ lkFailedGuard = None
                  /\ LET r == mark_failure(pmProxies, pmFailed, pmConfig, pmNow,
                                           lkTasks[t].url, "Connection timeout")
                     IN  /\ pmProxies' = r.proxies
                         /\ pmFailed' = r.failed
                  /\ lkProxiesGuard' = None
                  /\ lkTasks' = [lkTasks EXCEPT ![t].pc = "done"]
                  /\ UNCHANGED lkFailedGuard
    /\ UNCHANGED <<pmNow, pmConfig, pmHistory>>

\* get_stats: self.proxies.lock() at line 215, self.failed_proxies.lock() at
\* line 216, then the sums; both guards are dropped at the end
LockGetStats ==
    /\ \E t \in LockTaskIds :
          /\ lkTasks[t].op = "get_stats"
          /\ IF lkTasks[t].pc = "lock_215"
             THEN /\ lkProxiesGuard = None
                  /\ lkProxiesGuard' = Some(t)
                  /\ lkTasks' = [lkTasks EXCEPT ![t].pc = "lock_216"]
                  /\ UNCHANGED lkFailedGuard
             ELSE /\ lkTasks[t].pc = "lock_216"
                  /\ lkFailedGuard = None
                  /\ lkProxiesGuard' = None
                  /\ lkTasks' = [lkTasks EXCEPT ![t].pc = "done"]
                  /\ UNCHANGED lkFailedGuard
    /\ UNCHANGED pmVars

\* get_next_proxy: recover_failed_proxies locks self.failed_proxies at line
\* 187 and self.proxies at line 188 and drops both when it returns; the
\* selection then locks self.proxies at line 99
LockGetNextProxy ==
    /\ \E t \in LockTaskIds :
          /\ lkTasks[t].op = "get_next_proxy"
          /\ IF lkTasks[t].pc = "lock_187"
             THEN /\ lkFailedGuard = None
                  /\ lkFailedGuard' = Some(t)
                  /\ lkTasks' = [lkTasks EXCEPT ![t].pc = "lock_188"]
                  /\ UNCHANGED <<lkProxiesGuard, pmProxies, pmFailed>>
             ELSE IF lkTasks[t].pc = "lock_188"
             THEN /\ lkProxiesGuard = None
                  /\ LET rec == recover_failed_proxies(pmProxies, pmFailed, pmConfig, pmNow)
                     IN  /\ pmProxies' = rec.proxies
                         /\ pmFailed' = rec.failed
                  /\ lkFailedGuard' = None
                  /\ lkTasks' = [lkTasks EXCEPT ![t].pc = "lock_99"]
                  /\ UNCHANGED lkProxiesGuard
             ELSE /\ lkTasks[t].pc = "lock_99"
                  /\ lkProxiesGuard = None
                  /\ pmProxies' = IF pmProxies = <<>> THEN pmProxies
                                  ELSE RotationLoop(pmProxies, pmConfig, pmNow, 0).proxies
                  /\ lkTasks' = [lkTasks EXCEPT ![t].pc = "done"]
                  /\ UNCHANGED <<lkProxiesGuard, lkFailedGuard, pmFailed>>
    /\ UNCHANGED <<pmNow, pmConfig, pmHistory>>

\* a step of a call in progress
LockStep ==
    /\ LockMarkFailure \/ LockGetStats \/ LockGetNextProxy
    /\ UNCHANGED lockFrame

(***************************************************************************)
(* validator.rs: validate_batch                                            *)
(* is_valid and get_validation_errors each call validate_dates, which      *)
(* reads Utc::now() itself; the clock can advance between the two reads.   *)
(***************************************************************************)
MaxBatchCoupons == 2
MaxVbTicks == 1
VbStart == 100000

\* one message of get_validation_errors: the format string and its argument
ValidationError(message, arg) == <<message, arg>>

\* get_validation_errors, with `now` the value its validate_dates call reads
get_validation_errors(coupon, now) ==
    (IF ~validate_code(coupon.code)
     THEN <<ValidationError("Invalid coupon code: {}", coupon.code)>> ELSE <<>>)
    \o (IF ~validate_discount(coupon.discount_type, coupon.discount_value)
        THEN <<ValidationError("Invalid discount value", <<>>)>> ELSE <<>>)
    \o (IF ~validate_dates(coupon, now)
        THEN <<ValidationError("Invalid or expired dates", <<>>)>> ELSE <<>>)
    \o (IF ~validate_merchant(coupon)
        THEN <<ValidationError("Invalid merchant information", <<>>)>> ELSE <<>>)

ValidationResult(coupon, valid, validation_errors) ==
    [coupon |-> coupon, is_valid |-> valid, validation_errors |-> validation_errors]

\* coupons of the batch: each gate accepts some and rejects some, and the
\* dates lie at and next to the instants where the date gate changes its answer
VbCodes == {SAVE20, <<"A", "B">>}
VbDiscounts == {<<"Percentage", Some(20000)>>, <<"Unknown", Some(20000)>>}
VbFroms == {None, Some(VbStart), Some(VbStart + 1)}
VbUntils == {None, Some(VbStart), Some(VbStart + (max_future_days + 1) * 24)}
VbCoupons ==
    {RawCoupon(code, <<>>, d[1], d[2], vfrom, vuntil, TestStore, TestStoreDomain) :
        code \in VbCodes, d \in VbDiscounts, vfrom \in VbFroms, vuntil \in VbUntils}
    \cup {RawCoupon(SAVE20, <<>>, "Percentage", Some(20000), None, None, <<>>, TestStoreDomain)}

VBIdle ==
    /\ vbCoupons = <<>>
    /\ vbResults = <<>>
    /\ vbIsValid = FALSE
    /\ vbNow = 0
    /\ vbPc = "idle"

InitVB ==
    /\ vbCoupons \in SeqsUpTo(VbCoupons, MaxBatchCoupons)
    /\ vbResults = <<>>
    /\ vbIsValid = FALSE
    /\ vbNow = VbStart
    /\ vbPc = "is_valid"

\* let is_valid = self.is_valid(&coupon).await, for the next coupon of the loop
VbIsValid ==
    /\ vbPc = "is_valid"
    /\ Len(vbResults) < Len(vbCoupons)
    /\ vbIsValid' = is_valid(vbCoupons[Len(vbResults) + 1], vbNow)
    /\ vbPc' = "reasons"
    /\ UNCHANGED <<vbCoupons, vbResults, vbNow>>

\* let reasons = ...; results.push(ValidationResult { .. })
VbReasons ==
    /\ vbPc = "reasons"
    /\ LET coupon == vbCoupons[Len(vbResults) + 1]
           reasons == IF ~vbIsValid THEN get_validation_errors(coupon, vbNow) ELSE <<>>
       IN  vbResults' = Append(vbResults, ValidationResult(coupon, vbIsValid, reasons))
    /\ vbPc' = "is_valid"
    /\ UNCHANGED <<vbCoupons, vbIsValid, vbNow>>

\* the loop is over: results
VbReturn ==
    /\ vbPc = "is_valid"
    /\ Len(vbResults) = Len(vbCoupons)
    /\ vbPc' = "returned"
    /\ UNCHANGED <<vbCoupons, vbResults, vbIsValid, vbNow>>

\* the clock advances while validate_batch runs
VbTick ==
    /\ vbPc \in {"is_valid", "reasons"}
    /\ vbNow < VbStart + MaxVbTicks
    /\ vbNow' = vbNow + 1
    /\ UNCHANGED <<vbCoupons, vbResults, vbIsValid, vbPc>>

(***************************************************************************)
(* parser.rs and mod.rs: what process_batch does with fetched pages        *)
(* A page is the content type detect_content_type finds, whether the JSON  *)
(* is well formed, the items of its coupon array, the elements its         *)
(* selectors match, and the coupons extract_from_text finds in its text    *)
(* (the regular expressions themselves are not modelled).                  *)
(***************************************************************************)
MaxPages == 2

Whitespace == {" "}
UnknownName == <<"U", "n", "k", "n", "o", "w", "n">>
CouponTitle == <<"C", "o", "u", "p", "o", "n">>
CouponCodeTitle == CouponTitle \o <<" ", "C", "o", "d", "e">>

\* Parser::extract_domain(source_url).unwrap_or_default()
DomainOrDefault(source_url) ==
    IF extract_domain(source_url).kind = "Err" THEN <<>>
    ELSE extract_domain(source_url).value

\* a JSON item: the string under code / couponCode / promoCode, the string
\* under title / name / description, the number under discountValue
JsonItem(code, title, discountValue) ==
    [code |-> code, title |-> title, discountValue |-> discountValue]

\* JsonParser::extract_coupon_from_json
extract_coupon_from_json(item, source_url) ==
    IF ~IsSome(item.code) THEN None
    ELSE Some(RawCoupon(ToUppercase(Unwrap(item.code)),
                        IF IsSome(item.title) THEN Unwrap(item.title) ELSE CouponTitle,
                        "Unknown", item.discountValue, None, None,
                        UnknownName, DomainOrDefault(source_url)))

\* an element a selector matched: its data-coupon-code or data-clipboard-text
\* attribute, its text, its data-title or title attribute
Element(attr_code, text, title) == [attr_code |-> attr_code, text |-> text, title |-> title]

\* text.trim().split_whitespace().next()
FirstToken(text) ==
    LET starts == {i \in 1..Len(text) : text[i] \notin Whitespace}
        start == CHOOSE i \in starts : \A j \in starts : i <= j
        stops == {i \in (start + 1)..(Len(text) + 1) :
                     i = Len(text) + 1 \/ text[i] \in Whitespace}
        stop == CHOOSE i \in stops : \A j \in stops : i <= j
    IN  IF starts = {} THEN None ELSE Some(SubSeq(text, start, stop - 1))

\* CouponExtractor::extract
extract(element, source_url) ==
    LET token == FirstToken(element.text)
        code == IF IsSome(element.attr_code) THEN ToUppercase(Unwrap(element.attr_code))
                ELSE ToUppercase(Unwrap(token))
    IN  IF ~IsSome(element.attr_code) /\ ~IsSome(token) THEN None
        ELSE IF ByteLen(code) < 3 \/ ByteLen(code) > 50 THEN None
        ELSE Some(RawCoupon(code,
                            IF IsSome(element.title) THEN Unwrap(element.title)
                            ELSE CouponCodeTitle,
                            "Unknown", None, None, None,
                            UnknownName, DomainOrDefault(source_url)))

\* the Some values of a sequence of Options, in order
Somes(options) == Flatten(options)

\* JsonParser::parse on the array of items
JsonParse(items, source_url) ==
    Somes([k \in 1..Len(items) |-> extract_coupon_from_json(items[k], source_url)])

\* HtmlParser::parse on the matched elements
HtmlParse(elements, source_url) ==
    Somes([k \in 1..Len(elements) |-> extract(elements[k], source_url)])

\* the RawCoupon extract_from_text builds for a code and the discount found
\* next to it: merchant_name and merchant_domain are the page's domain
TextCoupon(code, title, discount_type, discount_value, domain) ==
    RawCoupon(ToUppercase(code), title, discount_type, discount_value, None, None,
              domain, domain)

Page(content_type, well_formed, items, elements, text_matches) ==
    [content_type |-> content_type, well_formed |-> well_formed, items |-> items,
     elements |-> elements, text_matches |-> text_matches]

\* Parser::extract_from_text on the matches of code_pattern
extract_from_text(text_matches, domain) ==
    [k \in 1..Len(text_matches) |->
        TextCoupon(text_matches[k][1], text_matches[k][2], text_matches[k][3],
                   text_matches[k][4], domain)]

\* Parser::extract_coupons
extract_coupons(page, source_url) ==
    IF extract_domain(source_url).kind = "Err" THEN Err
    ELSE LET domain == extract_domain(source_url).value
         IN  CASE page.content_type = "Html" ->
                      Ok(HtmlParse(page.elements, source_url)
                         \o extract_from_text(page.text_matches, domain))
               [] page.content_type = "Json" ->
                      IF page.well_formed THEN Ok(JsonParse(page.items, source_url)) ELSE Err
               [] OTHER -> Ok(extract_from_text(page.text_matches, domain))

\* mod.rs:141-150: the coupons of the parse that pass validator.is_valid
valid_coupons(coupons, now) == SelectSeq(coupons, LAMBDA c : is_valid(c, now))

LowerSave20 == <<"s", "a", "v", "e", "2", "0">>
PercentOffTitle == <<"2", "0", "%", " ", "O", "f", "f">>
PuElements ==
    {Element(Some(LowerSave20), <<>>, None),
     Element(None, <<" ", "f", "r", "e", "e", " ", "s", "h", "i", "p">>, Some(PercentOffTitle)),
     Element(None, <<"a", "b">>, None),
     Element(None, <<" ">>, None)}
PercentageMatch == <<LowerSave20, PercentOffTitle, "Percentage", Some(20000)>>
PuTextMatches == {PercentageMatch, <<SAVE10, CouponTitle, "Unknown", None>>}
PuPages ==
    {Page("Json", TRUE, items, <<>>, <<>>) :
        items \in {<<>>, <<JsonItem(Some(LowerSave20), None, Some(20000))>>,
                   <<JsonItem(None, Some(PercentOffTitle), Some(20000))>>,
                   <<JsonItem(Some(LowerSave20), None, Some(20000)),
                     JsonItem(Some(SAVE10), Some(PercentOffTitle), None)>>}}
    \cup {Page("Json", FALSE, <<>>, <<>>, <<>>)}
    \cup {Page("Html", TRUE, <<>>, elements, <<>>) : elements \in SeqsUpTo(PuElements, 1)}
    \cup {Page("Html", TRUE, <<>>, elements, <<PercentageMatch>>) :
             elements \in {<<>>, <<Element(Some(LowerSave20), <<>>, None)>>}}
    \cup {Page("Unknown", TRUE, <<>>, <<>>, <<match>>) : match \in PuTextMatches}
PuUrls == {AmazonUrl, TargetUrl}

PUIdle ==
    /\ puUrls = <<>>
    /\ puPages = <<>>
    /\ puParsed = <<>>
    /\ puValid = <<>>
    /\ puNow = 0
    /\ puRet = None
    /\ puPc = "idle"

\* every fetch_content call of the batch has returned Ok(content)
InitPU ==
    /\ \E n \in 1..MaxPages :
          /\ puUrls \in [1..n -> PuUrls]
          /\ puPages \in [1..n -> PuPages]
    /\ puParsed = <<>>
    /\ puValid = <<>>
    /\ puNow = VbStart
    /\ puRet = None
    /\ puPc = "units"

\* parser.extract_coupons(&content, &url).await in the next unit
PuExtractCoupons ==
    /\ puPc = "units"
    /\ Len(puParsed) = Len(puValid)
    /\ Len(puParsed) < Len(puPages)
    /\ puParsed' = Append(puParsed, extract_coupons(puPages[Len(puParsed) + 1],
                                                    puUrls[Len(puParsed) + 1]))
    /\ UNCHANGED <<puUrls, puPages, puValid, puNow, puRet, puPc>>

\* the match on the parse result: the validation loop, or Ok(Vec::new())
PuValidate ==
    /\ puPc = "units"
    /\ Len(puParsed) = Len(puValid) + 1
    /\ LET parsed == puParsed[Len(puParsed)]
       IN  puValid' = Append(puValid, IF parsed.kind = "Ok"
                                      THEN valid_coupons(parsed.value, puNow)
                                      ELSE <<>>)
    /\ UNCHANGED <<puUrls, puPages, puParsed, puNow, puRet, puPc>>

\* all_coupons.extend(coupons) for every unit, deduplicate, Ok(unique_coupons)
PuReturn ==
    /\ puPc = "units"
    /\ Len(puValid) = Len(puPages)
    /\ \E unique_coupons \in deduplicate(DefaultStrategy, Flatten(puValid)) :
          puRet' = Some(unique_coupons)
    /\ puPc' = "returned"
    /\ UNCHANGED <<puUrls, puPages, puParsed, puValid, puNow>>

(***************************************************************************)
(* Specifications                                                          *)
(***************************************************************************)
NextDedup ==
    \/ Deduplicate /\ UNCHANGED dedupFrame
    \/ DeduplicateAgain /\ UNCHANGED dedupFrame
StartDedup == InitDedup /\ SimIdle /\ ValIdle /\ PMIdle /\ BatchIdle /\ RLIdle /\ TBIdle
    /\ DLIdle /\ FetchIdle /\ LockIdle /\ VBIdle /\ PUIdle
SpecDedup == StartDedup /\ [][NextDedup]_vars

NextSim == Score /\ UNCHANGED simFrame
StartSim == InitSim /\ DedupIdle /\ ValIdle /\ PMIdle /\ BatchIdle /\ RLIdle /\ TBIdle
    /\ DLIdle /\ FetchIdle /\ LockIdle /\ VBIdle /\ PUIdle
SpecSim == StartSim /\ [][NextSim]_vars

NextVal == IsValid /\ UNCHANGED valFrame
StartVal == InitVal /\ DedupIdle /\ SimIdle /\ PMIdle /\ BatchIdle /\ RLIdle /\ TBIdle
    /\ DLIdle /\ FetchIdle /\ LockIdle /\ VBIdle /\ PUIdle
SpecVal == StartVal /\ [][NextVal]_vars

NextPM ==
    \/ AddProxy /\ UNCHANGED pmFrame
    \/ AddProxies /\ UNCHANGED pmFrame
    \/ GetNextProxy /\ UNCHANGED pmFrame
    \/ MarkSuccess /\ UNCHANGED pmFrame
    \/ MarkFailure /\ UNCHANGED pmFrame
    \/ Sleep /\ UNCHANGED pmFrame
StartPM == InitPM /\ DedupIdle /\ SimIdle /\ ValIdle /\ BatchIdle /\ RLIdle /\ TBIdle
    /\ DLIdle /\ FetchIdle /\ LockIdle /\ VBIdle /\ PUIdle
SpecPM == StartPM /\ [][NextPM]_vars

NextBatch ==
    \/ Spawn /\ UNCHANGED batchFrame
    \/ Acquire /\ UNCHANGED batchFrame
    \/ WaitIfNeeded /\ UNCHANGED batchFrame
    \/ Scrape /\ UNCHANGED batchFrame
    \/ Join /\ UNCHANGED batchFrame
    \/ Return /\ UNCHANGED batchFrame
    \/ Tick /\ UNCHANGED batchFrame
StartBatch == InitBatch /\ DedupIdle /\ SimIdle /\ ValIdle /\ PMIdle /\ RLIdle /\ TBIdle
    /\ DLIdle /\ FetchIdle /\ LockIdle /\ VBIdle /\ PUIdle
SpecBatch == StartBatch /\ [][NextBatch]_vars
\* time passes, and the batch and its units go on whenever they can
FairSpecBatch == SpecBatch /\ WF_vars(Tick /\ UNCHANGED batchFrame) /\ WF_vars(BatchStep)

NextRL ==
    \/ RlEnter /\ UNCHANGED rlFrame
    \/ RlWaitIfNeeded /\ UNCHANGED rlFrame
    \/ RlSetDomainLimit /\ UNCHANGED rlFrame
    \/ RlGetCurrentRate /\ UNCHANGED rlFrame
    \/ RlResetDomain /\ UNCHANGED rlFrame
    \/ Tick /\ UNCHANGED rlVars /\ UNCHANGED rlFrame
StartRL == InitRL /\ BatchIdle /\ DedupIdle /\ SimIdle /\ ValIdle /\ PMIdle /\ TBIdle
    /\ DLIdle /\ FetchIdle /\ LockIdle /\ VBIdle /\ PUIdle
SpecRL == StartRL /\ [][NextRL]_vars
\* time passes, and a call that can go on does go on
FairSpecRL == SpecRL /\ WF_vars(Tick /\ UNCHANGED rlVars /\ UNCHANGED rlFrame)
                     /\ \A c \in RlCallerIds :
                           WF_vars(RlStep /\ rlCallers'[c] # rlCallers[c])

NextTB ==
    \/ TbAcquire /\ UNCHANGED tbFrame
    \/ TbSleep /\ UNCHANGED tbFrame
StartTB == InitTB /\ DedupIdle /\ SimIdle /\ ValIdle /\ PMIdle /\ BatchIdle /\ RLIdle
    /\ DLIdle /\ FetchIdle /\ LockIdle /\ VBIdle /\ PUIdle
SpecTB == StartTB /\ [][NextTB]_vars

NextAW ==
    \/ TbEnter /\ UNCHANGED awFrame
    \/ TbAcquireOrWait /\ UNCHANGED awFrame
    \/ TbTick /\ UNCHANGED awFrame
StartAW == InitTB /\ DedupIdle /\ SimIdle /\ ValIdle /\ PMIdle /\ BatchIdle /\ RLIdle
    /\ DLIdle /\ FetchIdle /\ LockIdle /\ VBIdle /\ PUIdle
SpecAW == StartAW /\ [][NextAW]_vars
\* time passes, and a task that can run does run
FairSpecAW == SpecAW /\ WF_vars(TbTick /\ UNCHANGED awFrame)
                     /\ \A w \in TbWaiterIds : WF_vars(AcquireOrWaitStep(w) /\ UNCHANGED awFrame)

NextDL ==
    \/ DlWaitIfNeeded /\ UNCHANGED dlFrame
    \/ DlWake /\ UNCHANGED dlFrame
    \/ DlTick /\ UNCHANGED dlFrame
    \/ RlWaitIfNeeded /\ UNCHANGED dlVars /\ UNCHANGED dlFrame
StartDL == InitDL /\ BatchIdle /\ DedupIdle /\ SimIdle /\ ValIdle /\ PMIdle /\ TBIdle
    /\ FetchIdle /\ LockIdle /\ VBIdle /\ PUIdle
SpecDL == StartDL /\ [][NextDL]_vars

NextBatchDrop ==
    \/ Spawn /\ UNCHANGED batchdropFrame
    \/ Acquire /\ UNCHANGED batchdropFrame
    \/ WaitIfNeeded /\ UNCHANGED batchdropFrame
    \/ Scrape /\ UNCHANGED batchdropFrame
    \/ Join /\ UNCHANGED batchdropFrame
    \/ Return /\ UNCHANGED batchdropFrame
    \/ Tick /\ UNCHANGED batchdropFrame
    \/ Drop /\ UNCHANGED batchdropFrame
StartBatchDrop == InitBatch /\ DedupIdle /\ SimIdle /\ ValIdle /\ PMIdle /\ RLIdle
    /\ TBIdle /\ DLIdle /\ FetchIdle /\ LockIdle /\ VBIdle /\ PUIdle
SpecBatchDrop == StartBatchDrop /\ [][NextBatchDrop]_vars

NextFetch ==
    \/ FetchLoop /\ UNCHANGED fetchFrame
    \/ FetchRequest /\ UNCHANGED fetchFrame
StartFetch == InitFetch /\ DedupIdle /\ SimIdle /\ ValIdle /\ PMIdle /\ BatchIdle
    /\ RLIdle /\ TBIdle /\ DLIdle /\ LockIdle /\ VBIdle /\ PUIdle
SpecFetch == StartFetch /\ [][NextFetch]_vars

NextRot ==
    \/ RotAddProxy /\ UNCHANGED rotFrame
    \/ RotGetNextProxy /\ UNCHANGED rotFrame
    \/ RotSleep /\ UNCHANGED rotFrame
StartRot == InitRot /\ DedupIdle /\ SimIdle /\ ValIdle /\ BatchIdle /\ RLIdle /\ TBIdle
    /\ DLIdle /\ FetchIdle /\ LockIdle /\ VBIdle /\ PUIdle
SpecRot == StartRot /\ [][NextRot]_vars

NextLock ==
    \/ LockCall /\ UNCHANGED lockFrame
    \/ LockMarkFailure /\ UNCHANGED lockFrame
    \/ LockGetStats /\ UNCHANGED lockFrame
    \/ LockGetNextProxy /\ UNCHANGED lockFrame
StartLock == InitLock /\ DedupIdle /\ SimIdle /\ ValIdle /\ BatchIdle /\ RLIdle
    /\ TBIdle /\ DLIdle /\ FetchIdle /\ VBIdle /\ PUIdle
SpecLock == StartLock /\ [][NextLock]_vars

NextVB ==
    \/ VbIsValid /\ UNCHANGED vbFrame
    \/ VbReasons /\ UNCHANGED vbFrame
    \/ VbReturn /\ UNCHANGED vbFrame
    \/ VbTick /\ UNCHANGED vbFrame
StartVB == InitVB /\ DedupIdle /\ SimIdle /\ ValIdle /\ PMIdle /\ BatchIdle /\ RLIdle
    /\ TBIdle /\ DLIdle /\ FetchIdle /\ LockIdle /\ PUIdle
SpecVB == StartVB /\ [][NextVB]_vars

NextPU ==
    \/ PuExtractCoupons /\ UNCHANGED puFrame
    \/ PuValidate /\ UNCHANGED puFrame
    \/ PuReturn /\ UNCHANGED puFrame
StartPU == InitPU /\ DedupIdle /\ SimIdle /\ ValIdle /\ PMIdle /\ BatchIdle /\ RLIdle
    /\ TBIdle /\ DLIdle /\ FetchIdle /\ LockIdle /\ VBIdle
SpecPU == StartPU /\ [][NextPU]_vars

NextBurst ==
    \/ BurstEnter /\ UNCHANGED burstFrame
    \/ BurstAcquire /\ UNCHANGED burstFrame
    \/ TbEnter /\ UNCHANGED burstFrame
    \/ TbAcquireOrWait /\ UNCHANGED burstFrame
    \/ TbTick /\ UNCHANGED burstFrame
StartBurst == InitBurst /\ DedupIdle /\ SimIdle /\ ValIdle /\ PMIdle /\ BatchIdle
    /\ RLIdle /\ DLIdle /\ FetchIdle /\ LockIdle /\ VBIdle /\ PUIdle
SpecBurst == StartBurst /\ [][NextBurst]_vars


(***************************************************************************)
(* Properties of the deduplicator                                          *)
(***************************************************************************)
CouponKey(c) == <<c.code, c.merchant_domain>>
\* the same coupons with the same multiplicities
SameCoupons(s, t) ==
    /\ Len(s) = Len(t)
    /\ \A c \in Range(s) \cup Range(t) : Count(s, c) = Count(t, c)
\* the coupons of merchant m, in order
OfMerchant(s, m) == SelectSeq(s, LAMBDA c : c.merchant_domain = m)

\* C5 (as stated): for each of the four strategies and every input X,
\* deduplicate(deduplicate(X)) equals deduplicate(X), as a list.
C5_IdempotentAsList ==
    ddPc = "twice" => ddOut2 = ddOut1

\* C5 (amended): deduplicate(deduplicate(X)) holds the same coupons as
\* deduplicate(X), each merchant's coupons in the same order; for
\* CodeAndMerchant, HashBased and Fuzzy the two lists are equal, for Combined
\* the order of the merchant groups may differ.
C5_IdempotentUpToGroupOrder ==
    ddPc = "twice" =>
        /\ SameCoupons(ddOut2, ddOut1)
        /\ \A c \in Range(ddOut1) :
               OfMerchant(ddOut2, c.merchant_domain) = OfMerchant(ddOut1, c.merchant_domain)
        /\ ddStrategy.kind # "Combined" => ddOut2 = ddOut1

\* C5 witness: the combined strategy removed a coupon, was applied to its own
\* result, and returned the same coupons with the merchant groups in another order
C5_Witness ==
    /\ ddPc = "twice"
    /\ ddStrategy.kind = "Combined"
    /\ Len(ddOut1) < Len(ddInput)
    /\ ddOut2 # ddOut1
    /\ SameCoupons(ddOut2, ddOut1)

\* C6: under CodeAndMerchant no two coupons of the output have the same
\* (code, merchant_domain), and for each pair present in the input the output
\* holds the first input coupon with that pair (and nothing else).
C6_FirstOccurrencePerPair ==
    (ddPc = "once" /\ ddStrategy.kind = "CodeAndMerchant") =>
        /\ \A i, j \in 1..Len(ddOut1) : i # j => CouponKey(ddOut1[i]) # CouponKey(ddOut1[j])
        /\ \A i \in 1..Len(ddInput) :
               LET first == CHOOSE k \in 1..Len(ddInput) :
                                /\ CouponKey(ddInput[k]) = CouponKey(ddInput[i])
                                /\ \A l \in 1..(k - 1) : CouponKey(ddInput[l]) # CouponKey(ddInput[i])
               IN  \E j \in 1..Len(ddOut1) : ddOut1[j] = ddInput[first]
        /\ Len(ddOut1) = Cardinality({CouponKey(c) : c \in Range(ddInput)})

\* C6 witness: the input holds two different coupons with the same pair, the
\* later one is dropped and a coupon of another merchant with that code is kept
C6_Witness ==
    /\ ddPc = "once"
    /\ ddStrategy.kind = "CodeAndMerchant"
    /\ \E i, j \in 1..Len(ddInput) :
           /\ i < j
           /\ CouponKey(ddInput[i]) = CouponKey(ddInput[j])
           /\ ddInput[i] # ddInput[j]
           /\ ddInput[j] \notin Range(ddOut1)
    /\ \E c, d \in Range(ddOut1) : c.code = d.code /\ c.merchant_domain # d.merchant_domain

\* C7: under the default Combined strategy the input of
\* tests::test_exact_duplicate_removal, [SAVE10@amazon.com, SAVE10@amazon.com,
\* SAVE10@target.com, SAVE20@amazon.com], yields exactly 3 coupons, one per
\* distinct (code, merchant_domain).
C7_ExactDuplicatesYieldThree ==
    (ddPc = "once" /\ ddStrategy = DefaultStrategy /\ ddInput = TestExactDuplicateInput) =>
        /\ Len(ddOut1) = 3
        /\ {CouponKey(c) : c \in Range(ddOut1)} = {CouponKey(c) : c \in Range(ddInput)}

\* C8: similarity_score is symmetric and reflexive: sim(a,b) = sim(b,a), and
\* sim(a,a) = 1.0 for every coupon a, also one without a discount_value.
C8_SymmetricAndReflexive ==
    simPc = "scored" => (ScoreEq(simAB, simBA) /\ ScoreIsOne(simAA))

\* the entries of a sequence at the positions of a set, in order
AtPositions(seq, S) ==
    [k \in 1..Cardinality(S) |->
        seq[CHOOSE i \in S : Cardinality({j \in S : j <= i}) = k]]

\* the sets of positions where each position is kept exactly when no kept
\* earlier position scores above the threshold against it
FuzzyKept(coupons, threshold) ==
    {S \in SUBSET (1..Len(coupons)) :
        \A i \in 1..Len(coupons) :
            (i \in S) <=> ~\E j \in S :
                              /\ j < i
                              /\ ScoreExceeds(similarity_score(coupons[j], coupons[i]),
                                              threshold)}

\* C24: under Fuzzy(threshold) a coupon is dropped if and only if its score
\* against some coupon kept before it is strictly above the threshold, the
\* first coupon is always kept, and [SAVE10, SAVE1O, DISCOUNT20] at one
\* merchant with threshold 0.8 yields SAVE10 and DISCOUNT20
C24_FuzzyDropsAboveThreshold ==
    (ddPc # "input" /\ ddStrategy.kind = "Fuzzy")
    => /\ \E S \in FuzzyKept(ddInput, ddStrategy.threshold) :
             ddOut1 = AtPositions(ddInput, S)
       /\ ddInput # <<>> => (ddOut1 # <<>> /\ ddOut1[1] = ddInput[1])
       /\ (ddInput = TestFuzzyInput /\ ddStrategy.threshold = TestFuzzyThreshold)
          => ddOut1 = <<create_test_coupon(SAVE10, Amazon),
                        create_test_coupon(DISCOUNT20, Amazon)>>

\* C24 witness: the input of test_fuzzy_deduplication gave two coupons
C24_Witness ==
    /\ ddPc = "once"
    /\ ddStrategy = Strategy("Fuzzy", TestFuzzyThreshold)
    /\ ddInput = TestFuzzyInput
    /\ Len(ddOut1) = 2

(***************************************************************************)
(* Properties of process_batch                                             *)
(***************************************************************************)
\* the units whose URL extract_domain cannot parse
Unparsable == {t \in 1..Len(bTasks) : extract_domain(bUrls[t]).kind = "Err"}
\* unit t calls scraper.fetch_content(&url) in this step
FetchCalled(t) == bTasks[t].pc = "fetch" /\ bTasks'[t].pc = "done"

\* C16: a URL that cannot be parsed into a domain is dropped silently: the
\* fetcher is never called for it, and its unit yields no coupons.
C16_UnparsableUrlIsDropped ==
    /\ [][\A t \in Unparsable : ~FetchCalled(t)]_vars
    /\ [](\A t \in Unparsable : bTasks[t].pc = "done" => bTasks[t].result = Some(Ok(<<>>)))

\* unit t passes a suspension point in this step: it gets its permit, goes
\* on in wait_if_needed, or fetches
UnitStep(t) == bTasks'[t] # bTasks[t]

\* C17: if the caller drops the process_batch future before it completes,
\* every spawned unit aborts at its next suspension point: it does not go on
\* past its semaphore acquire, its rate-limit wait or its fetch.
C17_UnitsAbortWhenBatchDropped ==
    [][bMain.pc = "dropped" => \A t \in 1..Len(bTasks) : ~UnitStep(t)]_vars

\* unit t ends in this step, whichever way
UnitEnds(t) == bTasks[t].pc # "done" /\ bTasks'[t].pc = "done"
AllUnitsEnded ==
    /\ Len(bTasks) = Len(bUrls)
    /\ \A t \in 1..Len(bTasks) : bTasks[t].pc = "done"

\* C18: every unit releases its semaphore permit on every exit path (fetch
\* error, parse error, success, panic): the step that ends a unit gives one
\* permit back, so once all units have ended the semaphore again has
\* max_concurrent_requests available permits.
C18_PermitsReleasedOnExit ==
    /\ [][\A t \in 1..Len(bTasks) : UnitEnds(t) => bPermits' = bPermits + 1]_vars
    /\ [](AllUnitsEnded => bPermits = bMaxConcurrent)

\* C18 witness: more units than permits, all of them ended
C18_Witness ==
    /\ AllUnitsEnded
    /\ Len(bTasks) > bMaxConcurrent
    /\ bPermits = bMaxConcurrent

\* the order inside a unit and the barrier before deduplicate: a unit with a
\* parsable URL fetches only after its rate-limit wait has returned, a unit's
\* coupons are the parsed coupons that passed is_valid, deduplicate runs only
\* when every unit has ended and has been joined, and the batch returns what
\* one deduplicate call gave
OrderedUnitsThenDeduplicate ==
    /\ \A t \in 1..Len(bTasks) :
          /\ (bTasks[t].pc \in {"fetch", "done"} /\ t \notin Unparsable)
             => bTasks[t].rl_pc = "returned"
          /\ (bTasks[t].pc = "done" /\ Unwrap(bTasks[t].result).kind = "Ok")
             => \A k \in 1..Len(Unwrap(bTasks[t].result).value) :
                   is_valid(Unwrap(bTasks[t].result).value[k], WallClockHours(bNow))
    /\ bMain.pc \in {"dedup", "returned"}
       => /\ AllUnitsEnded
          /\ bMain.joined = Len(bUrls)
          /\ bMain.all_coupons = OkCoupons(bTasks)
    /\ bMain.pc = "returned"
       => Unwrap(bMain.ret).value \in deduplicate(DefaultStrategy, bMain.all_coupons)

\* C29: within a unit the steps come in the order rate-limit wait, fetch,
\* parse, validation, and deduplicate is invoked exactly once per batch, after
\* every unit has finished: the order and the barrier hold, and a batch that
\* has not reached its return can go on (a step is possible, or a task sleeps
\* until its time comes).
\* Violated: a batch with a parsable URL stops before deduplicate.
C29_OrderedStepsAndOneDeduplicate ==
    /\ OrderedUnitsThenDeduplicate
    /\ bMain.pc # "returned"
       => \/ ENABLED BatchStep
          \/ \E t \in 1..Len(bTasks) : bTasks[t].rl_pc = "sleep_50"

(***************************************************************************)
(* Properties of the proxy pool                                            *)
(***************************************************************************)
\* the calls of the history that are operations of the manager (a sleep of the
\* calling task is none)
IsOperation(call) == call.op # "sleep"

Operations(history) == SelectSeq(history, IsOperation)

\* the step is a get_next_proxy call that follows a get_next_proxy call with no
\* operation of the manager in between
SecondOfTwoGetNext ==
    /\ Len(pmHistory') = Len(pmHistory) + 1
    /\ pmHistory'[Len(pmHistory')].op = "get_next_proxy"
    /\ Operations(pmHistory) # <<>>
    /\ Operations(pmHistory)[Len(Operations(pmHistory))].op = "get_next_proxy"

UrlsOf(entries) == {entries[k].url : k \in 1..Len(entries)}

\* the queue the second call selects from (after its recovery step)
QueueOfCall ==
    recover_failed_proxies(pmProxies, pmFailed, pmConfig, pmNow).proxies

PreviousRet == Operations(pmHistory)[Len(Operations(pmHistory))].ret

\* C21 as stated: with at least two active proxies of distinct URLs and no
\* operation in between, two consecutive get_next_proxy calls return different
\* proxies.  Violated when a URL is queued twice.
C21_Original ==
    [][(SecondOfTwoGetNext /\ Cardinality(UrlsOf(pmProxies)) >= 2)
       => pmHistory'[Len(pmHistory')].ret # PreviousRet]_vars

\* C21 amended: when the active queue holds at least two entries between the
\* two calls and no URL is queued twice (the entries that the second call
\* recovers included), two consecutive get_next_proxy calls with no operation
\* in between return proxies of different URLs
C21_ConsecutiveCallsDiffer ==
    [][(/\ SecondOfTwoGetNext
        /\ Len(pmProxies) >= 2
        /\ Cardinality(UrlsOf(QueueOfCall)) = Len(QueueOfCall))
       => /\ IsSome(PreviousRet)
          /\ IsSome(pmHistory'[Len(pmHistory')].ret)
          /\ pmHistory'[Len(pmHistory')].ret # PreviousRet]_vars

\* C21 witness: two get_next_proxy calls in a row on a queue of two distinct
\* URLs, a rotation interval apart, returned the two URLs
C21_Witness ==
    /\ Len(pmHistory) = 4
    /\ pmHistory[2].op = "get_next_proxy"
    /\ pmHistory[3].op = "sleep"
    /\ pmHistory[4].op = "get_next_proxy"
    /\ IsSome(pmHistory[2].ret)
    /\ IsSome(pmHistory[4].ret)
    /\ pmHistory[2].ret # pmHistory[4].ret
    /\ Len(pmProxies) = 2
    /\ Cardinality(UrlsOf(pmProxies)) = 2

\* C22 as stated: every active entry has failure_count < max_failures.
\* Violated by a manager configured with max_failures = 0, whose fresh
\* entries have failure_count = 0.
C22_Original ==
    \A k \in 1..Len(pmProxies) : pmProxies[k].failure_count < pmConfig.max_failures

\* the step is a mark_failure call
IsMarkFailure ==
    /\ Len(pmHistory') = Len(pmHistory) + 1
    /\ pmHistory'[Len(pmHistory')].op = "mark_failure"

\* C22 amended: an active entry has failure_count < max_failures when
\* max_failures >= 1 and failure_count = 0 when max_failures = 0; mark_failure
\* leaves the entries already quarantined as they are, and changes nothing at
\* all when its URL is not active
C22_FailuresStopAtQuarantine ==
    /\ [](\A k \in 1..Len(pmProxies) :
            /\ pmConfig.max_failures >= 1
               => pmProxies[k].failure_count < pmConfig.max_failures
            /\ pmConfig.max_failures = 0 => pmProxies[k].failure_count = 0)
    /\ [][IsMarkFailure
          => /\ Len(pmFailed') >= Len(pmFailed)
             /\ SubSeq(pmFailed', 1, Len(pmFailed)) = pmFailed
             /\ pmHistory'[Len(pmHistory')].urls[1] \notin UrlsOf(pmProxies)
                => UNCHANGED <<pmProxies, pmFailed>>]_vars

\* C22 witness: mark_failure was called for a URL that is quarantined and not
\* active, after the entry had reached max_failures
C22_Witness ==
    /\ Len(pmHistory) >= 2
    /\ pmHistory[Len(pmHistory)].op = "mark_failure"
    /\ pmHistory[Len(pmHistory) - 1].op = "mark_failure"
    /\ pmHistory[Len(pmHistory)].urls = pmHistory[Len(pmHistory) - 1].urls
    /\ pmConfig.max_failures >= 1
    /\ pmProxies = <<>>
    /\ Len(pmFailed) = 1
    /\ pmFailed[1].url = pmHistory[Len(pmHistory)].urls[1]

\* the step is a mark_success call
IsMarkSuccess ==
    /\ Len(pmHistory') = Len(pmHistory) + 1
    /\ pmHistory'[Len(pmHistory')].op = "mark_success"

\* add_proxy(url), then a failure, a success and a failure
InterruptedFailureCalls(url) ==
    <<Call("add_proxy", <<url>>, 0, None),
      Call("mark_failure", <<url>>, 0, None),
      Call("mark_success", <<url>>, 0, None),
      Call("mark_failure", <<url>>, 0, None)>>

\* C23: mark_success(url) adds one to the success_count of the first active
\* entry with the URL and resets its failure_count, changes no other entry and
\* no other field, and moves nothing between the queue and the quarantine; a
\* success between two failures keeps a proxy with max_failures = 2 active
C23_MarkSuccessEffect ==
    /\ [][IsMarkSuccess
          => LET url == pmHistory'[Len(pmHistory')].urls[1]
                 i == FirstIndex(pmProxies, url)
             IN  /\ pmFailed' = pmFailed
                 /\ Len(pmProxies') = Len(pmProxies)
                 /\ \A k \in 1..Len(pmProxies) :
                       /\ pmProxies'[k].url = pmProxies[k].url
                       /\ pmProxies'[k].last_used = pmProxies[k].last_used
                       /\ k # i => pmProxies'[k] = pmProxies[k]
                       /\ k = i => /\ pmProxies'[k].success_count =
                                         pmProxies[k].success_count + 1
                                   /\ pmProxies'[k].failure_count = 0]_vars
    /\ [](\A url \in ProxyUrls :
            (pmHistory = InterruptedFailureCalls(url) /\ pmConfig.max_failures = TestMaxFailures)
            => /\ pmFailed = <<>>
               /\ Len(pmProxies) = 1
               /\ pmProxies[1].failure_count = 1
               /\ pmProxies[1].success_count = 1)

\* C23 witness: a success between two failures, on a manager that quarantines
\* at two failures, left the proxy active
C23_Witness ==
    \E url \in ProxyUrls :
        /\ pmHistory = InterruptedFailureCalls(url)
        /\ pmConfig.max_failures = TestMaxFailures
        /\ Len(pmProxies) = 1
        /\ pmProxies[1].url = url
        /\ pmProxies[1].success_count = 1

\* every entry of the queue was used less than rotation_interval ago
AllUsedRecently(entries) ==
    /\ entries # <<>>
    /\ \A k \in 1..Len(entries) :
          /\ IsSome(entries[k].last_used)
          /\ pmNow - Unwrap(entries[k].last_used) < pmConfig.rotation_interval

\* the entries with the oldest last_used
LeastRecentlyUsed(entries) ==
    {k \in 1..Len(entries) :
        \A j \in 1..Len(entries) :
            Unwrap(entries[k].last_used) <= Unwrap(entries[j].last_used)}

\* C27: when every active proxy was used less than rotation_interval ago,
\* get_next_proxy returns the active proxy with the oldest last_used.
\* Violated: the head of the queue is returned, and after a rotation past
\* recently used entries the head is not the oldest.
C27_FallbackIsLeastRecentlyUsed ==
    [][(/\ Len(pmHistory') = Len(pmHistory) + 1
        /\ pmHistory'[Len(pmHistory')].op = "get_next_proxy"
        /\ AllUsedRecently(QueueOfCall))
       => \E k \in LeastRecentlyUsed(QueueOfCall) :
             pmHistory'[Len(pmHistory')].ret = Some(QueueOfCall[k].url)]_vars

(***************************************************************************)
(* Properties of the validator                                             *)
(***************************************************************************)
\* length at least 4 and all characters equal, or chars[i] = chars[i mod 2]
\* at every position i (counted from 0)
Repetitive(code) ==
    /\ Len(code) >= 4
    /\ \/ \A i \in 1..Len(code) : code[i] = code[1]
       \/ \A i \in 0..(Len(code) - 1) : code[i + 1] = code[(i % 2) + 1]

\* the code passes the checks that validate_code makes before the repetition check
ReachesRepetitionCheck(code) ==
    /\ MatchesValidCodePattern(code)
    /\ ~\E keyword \in SPAM_KEYWORDS : Contains(ToUppercase(code), keyword)

OtherGatesAccept(coupon, now) ==
    /\ validate_discount(coupon.discount_type, coupon.discount_value)
    /\ validate_dates(coupon, now)
    /\ validate_merchant(coupon)

\* C25: a code that reaches the repetition check is rejected exactly when its
\* length is at least 4 and all its characters are equal or chars[i] =
\* chars[i mod 2] at every position; an otherwise valid coupon with code AAAA
\* is rejected and one with code SAVE20 is accepted
C25_RepetitiveCodesRejected ==
    (vPc = "done" /\ ReachesRepetitionCheck(vCoupon.code))
    => /\ validate_code(vCoupon.code) <=> ~Repetitive(vCoupon.code)
       /\ OtherGatesAccept(vCoupon, vNow)
          => /\ vResult <=> ~Repetitive(vCoupon.code)
             /\ vCoupon.code = <<"A", "A", "A", "A">> => ~vResult
             /\ vCoupon.code = SAVE20 => vResult

\* C25 witness: an otherwise valid coupon whose code alternates two
\* characters was rejected
C25_Witness ==
    /\ vPc = "done"
    /\ vCoupon.code = <<"A", "B", "A", "B", "A">>
    /\ OtherGatesAccept(vCoupon, vNow)
    /\ ~vResult

HoursPerDay == 24

\* C30: the date gate rejects every coupon whose valid_until lies more than
\* max_future_days days after now, a coupon expiring in 365 days and 12 hours
\* included.  Violated: num_days truncates to whole days.
C30_RejectsBeyondMaxFutureDays ==
    (/\ vPc = "done"
     /\ IsSome(vCoupon.valid_until)
     /\ Unwrap(vCoupon.valid_until) - vNow > max_future_days * HoursPerDay)
    => /\ ~validate_dates(vCoupon, vNow)
       /\ ~vResult

(***************************************************************************)
(* Properties of the sliding-window limiter                                *)
(***************************************************************************)
\* the domain has fewer requests in its window than its limit allows
BelowLimit(domain) ==
    IF domain \in DOMAIN rlLimits
    THEN Len(Retain(rlLimits[domain].request_times, bNow, rlLimits[domain].window_duration))
            < rlLimits[domain].max_requests
    ELSE 0 < rlDefaultRate

\* C26: a wait_if_needed call for a domain below its limit does not wait for
\* the callers of another domain: while it waits for the mutex of the map, the
\* mutex is not owned by a suspended call for another domain.
\* Violated: a call for another domain that is suspended at the lock of line
\* 63 owns the guard of line 28.
C26_OtherDomainDoesNotBlock ==
    \A c \in InWaitIfNeeded, h \in InWaitIfNeeded :
        (/\ rlCallers[c].rl_pc = "lock_28"
         /\ BelowLimit(rlCallers[c].domain)
         /\ rlCallers[h].domain # rlCallers[c].domain)
        => rlHolder # Some(h)

(***************************************************************************)
(* Properties of the token bucket                                          *)
(***************************************************************************)
\* the step is an acquire call
IsAcquire ==
    /\ Len(tbHistory') = Len(tbHistory) + 1
    /\ tbHistory'[Len(tbHistory')].op = "acquire"

\* C31: acquire(domain, n) succeeds and deducts n exactly when the refilled
\* token count is at least n; otherwise it deducts nothing and returns
\* InsufficientTokens with available = the refilled count, requested = n and
\* wait_time = (n - available) / refill_rate
C31_AcquireSucceedsIffEnough ==
    [][IsAcquire
       => LET call == tbHistory'[Len(tbHistory')]
              n == call.tokens * TimeUnitsPerMinute
              available == Refilled(call.domain)
              bucket == tbBuckets'[call.domain]
          IN  IF available >= n
              THEN /\ call.ret = Ok(<<>>)
                   /\ bucket.tokens = available - n
              ELSE /\ call.ret.kind = "Err"
                   /\ call.ret.available = available
                   /\ call.ret.requested = n
                   /\ call.ret.wait_time * bucket.refill_rate = n - available
                   /\ bucket.tokens = available]_vars

\* C31 witness: an acquire failed on a bucket that was partly refilled, and
\* an acquire succeeded
C31_Witness ==
    /\ \E k \in 1..Len(tbHistory) :
          /\ tbHistory[k].op = "acquire"
          /\ tbHistory[k].ret.kind = "Err"
          /\ tbHistory[k].ret.available > 0
          /\ \E j \in 1..(k - 1) : tbHistory[j].op = "sleep"
    /\ \E k \in 1..Len(tbHistory) :
          tbHistory[k].op = "acquire" /\ tbHistory[k].ret.kind = "Ok"

\* caller c returns from wait_if_needed in this step
WaitIfNeededReturns(c) ==
    rlCallers[c].pc = "wait_if_needed" /\ rlCallers'[c].pc = "idle"

\* the timestamps of a domain in the map, none when the domain is not in it
RequestTimes(limits, domain) ==
    IF domain \in DOMAIN limits THEN limits[domain].request_times ELSE <<>>

\* C32: every wait_if_needed call eventually returns, time advancing and the
\* call going on whenever it can, and on return one new timestamp, the
\* instant of the return, has been recorded for the domain.
\* Violated: the call waits for ever for the guard it owns itself.
C32_WaitIfNeededReturns ==
    /\ [][\A c \in RlCallerIds :
             WaitIfNeededReturns(c)
             => LET before == RequestTimes(rlLimits, rlCallers[c].domain)
                    after == RequestTimes(rlLimits', rlCallers[c].domain)
                IN  /\ Len(after) = Len(before) + 1
                    /\ SubSeq(after, 1, Len(before)) = before
                    /\ after[Len(after)] = bNow]_vars
    /\ \A c \in RlCallerIds :
          (rlCallers[c].pc = "wait_if_needed") ~> (rlCallers[c].pc = "idle")

\* C33: for a finite URL list, max_concurrent_requests >= 1 and fetches that
\* terminate, process_batch eventually returns, every spawned unit having
\* finished and been joined.
\* Violated: the unit of a parsable URL never leaves wait_if_needed.
C33_ProcessBatchReturns ==
    <>(/\ bMain.pc = "returned"
       /\ AllUnitsEnded
       /\ bMain.joined = Len(bUrls))

(***************************************************************************)
(* Properties of concurrent calls on the proxy pool                        *)
(***************************************************************************)
\* the tasks inside a call
InLockCall == {t \in LockTaskIds : lkTasks[t].pc \notin {"idle", "done"}}

\* task t owns the guard of `proxies` and waits for `failed_proxies`
HoldsProxiesWaitsFailed(t) ==
    lkProxiesGuard = Some(t) /\ lkTasks[t].pc \in {"lock_159", "lock_216"}

\* task t owns the guard of `failed_proxies` and waits for `proxies`
HoldsFailedWaitsProxies(t) ==
    lkFailedGuard = Some(t) /\ lkTasks[t].pc = "lock_188"

\* C34: concurrent mark_failure, get_next_proxy and get_stats calls on one
\* ProxyManager all complete: no two tasks each hold one of the two mutexes
\* and wait for the other, and a call in progress can always go on.
\* Violated: mark_failure and get_stats lock `proxies` first,
\* recover_failed_proxies locks `failed_proxies` first.
C34_NoLockCycle ==
    /\ ~\E t \in LockTaskIds, u \in LockTaskIds :
           HoldsProxiesWaitsFailed(t) /\ HoldsFailedWaitsProxies(u)
    /\ InLockCall # {} => ENABLED LockStep

\* how many proxies the calls so far have added
TotalAdded ==
    LET adds == SelectSeq(pmHistory, LAMBDA c : c.op \in {"add_proxy", "add_proxies"})
    IN  Len(Flatten([k \in 1..Len(adds) |-> adds[k].urls]))

\* C35: after any sequence of add_proxy, add_proxies, get_next_proxy,
\* mark_success and mark_failure calls the active entries and the quarantined
\* entries are together as many as the proxies added: no operation loses or
\* duplicates an entry
C35_EntriesAreConserved ==
    Len(pmProxies) + Len(pmFailed) = TotalAdded

\* C35 witness: a proxy was added, quarantined by its first failure, and
\* brought back by the recovery step of get_next_proxy
C35_Witness ==
    /\ Len(pmHistory) = 4
    /\ pmConfig.max_failures <= 1
    /\ pmHistory[1].op = "add_proxy"
    /\ pmHistory[2].op = "mark_failure"
    /\ pmHistory[2].urls = pmHistory[1].urls
    /\ pmHistory[3].op = "sleep"
    /\ pmHistory[3].secs >= pmConfig.retry_after
    /\ pmHistory[4].op = "get_next_proxy"
    /\ pmHistory[4].ret = Some(pmHistory[1].urls[1])
    /\ pmFailed = <<>>
    /\ Len(pmProxies) = 1


\* the step is a get_next_proxy call
IsGetNextProxy ==
    /\ Len(pmHistory') = Len(pmHistory) + 1
    /\ pmHistory'[Len(pmHistory')].op = "get_next_proxy"

\* retry_after has not yet elapsed since the entry's failed_at
NotYetDue(f) == pmNow - f.failed_at < pmConfig.retry_after

\* C36 as stated: get_next_proxy never returns the URL of a quarantined proxy
\* whose retry_after has not elapsed since its failed_at.  Violated when the
\* URL is also in the active queue.
C36_Original ==
    [][IsGetNextProxy
       => \A k \in 1..Len(pmFailed) :
             NotYetDue(pmFailed[k])
             => pmHistory'[Len(pmHistory')].ret # Some(pmFailed[k].url)]_vars

\* C36 amended: a get_next_proxy call leaves in quarantine, in order, exactly
\* the entries whose retry_after has not elapsed since their failed_at, and
\* it returns the URL of such an entry only if another entry with the same
\* URL is in the active queue or is a quarantined entry whose retry_after has
\* elapsed
C36_QuarantinedEntryStaysUntilRetryAfter ==
    [][IsGetNextProxy
       => /\ pmFailed' = SelectSeq(pmFailed, NotYetDue)
          /\ \A k \in 1..Len(pmFailed) :
                (/\ NotYetDue(pmFailed[k])
                 /\ ActiveCount(pmFailed[k].url) = 0
                 /\ \A j \in 1..Len(pmFailed) :
                       pmFailed[j].url = pmFailed[k].url => NotYetDue(pmFailed[j]))
                => pmHistory'[Len(pmHistory')].ret # Some(pmFailed[k].url)]_vars

\* C36 witness: one of two proxies was quarantined and, a rotation interval
\* later, get_next_proxy returned the other one and left the first quarantined
C36_Witness ==
    /\ Len(pmHistory) = 4
    /\ pmHistory[1].op = "add_proxies"
    /\ pmHistory[2].op = "mark_failure"
    /\ pmHistory[3].op = "sleep"
    /\ pmHistory[3].secs < pmConfig.retry_after
    /\ pmHistory[4].op = "get_next_proxy"
    /\ Len(pmFailed) = 1
    /\ pmFailed[1].url = pmHistory[2].urls[1]
    /\ pmNow - pmFailed[1].failed_at < pmConfig.retry_after
    /\ IsSome(pmHistory[4].ret)
    /\ pmHistory[4].ret # Some(pmFailed[1].url)

(***************************************************************************)
(* Properties of the HashBased strategy                                    *)
(***************************************************************************)
\* the four fields compute_coupon_hash reads are the same in both coupons
SameKeyFields(c1, c2) ==
    /\ c1.code = c2.code
    /\ c1.merchant_domain = c2.merchant_domain
    /\ c1.discount_type = c2.discount_type
    /\ c1.discount_value = c2.discount_value

\* the positions with no earlier coupon of the same four fields
FirstOfKeyFields(coupons) ==
    {i \in 1..Len(coupons) :
        \A j \in 1..(i - 1) : ~SameKeyFields(coupons[j], coupons[i])}

\* C37: under HashBased the result is the input without the coupons that
\* have an earlier coupon with the same code, merchant_domain, discount_type
\* and discount_value; two coupons that differ in one of the four are both
\* kept
C37_HashBasedRemovesOnlySameKeyFields ==
    (ddStrategy.kind = "HashBased" /\ ddPc # "input")
    => ddOut1 = AtPositions(ddInput, FirstOfKeyFields(ddInput))

(***************************************************************************)
(* Properties of validate_batch                                            *)
(***************************************************************************)
\* C38: every ValidationResult that validate_batch has pushed is consistent:
\* is_valid is false if and only if validation_errors is non-empty
C38_ResultsAreConsistent ==
    \A k \in 1..Len(vbResults) :
        (~vbResults[k].is_valid) <=> (vbResults[k].validation_errors # <<>>)

(***************************************************************************)
(* Properties of process_batch's result                                    *)
(***************************************************************************)
\* the coupons of unit k come only from the JSON parser and the selector
\* extractors
OnlyJsonOrSelectors(k) ==
    \/ puPages[k].content_type = "Json"
    \/ puPages[k].content_type = "Html" /\ puPages[k].text_matches = <<>>

CallFor(domain) ==
    \/ tbHistory # <<>> /\ tbHistory' = <<>> /\ tbHistory[1].domain = domain
    \/ \E w \in TbWaiterIds :
          /\ tbWaiters[w].pc = "acquire"
          /\ tbWaiters[w].domain = domain
          /\ tbWaiters'[w].pc # "acquire"

\* the step creates the domain's bucket, changes its tokens, capacity or
\* refill_rate, or moves its last_refill forward
BucketChanges(domain) ==
    \/ domain \notin DOMAIN tbBuckets
    \/ tbBuckets'[domain].tokens # tbBuckets[domain].tokens
    \/ tbBuckets'[domain].capacity # tbBuckets[domain].capacity
    \/ tbBuckets'[domain].refill_rate # tbBuckets[domain].refill_rate
    \/ tbBuckets'[domain].age < tbBuckets[domain].age

\* C40: whatever acquire and acquire_or_wait calls with n >= 0 are made and
\* whatever time passes, every bucket has 0 <= tokens <= capacity, no bucket
\* is ever removed, and a bucket is created or changed only by a call for its
\* own domain
C40_TokensWithinCapacity ==
    /\ [](\A d \in DOMAIN tbBuckets :
             tbBuckets[d].tokens >= 0 /\ tbBuckets[d].tokens <= tbBuckets[d].capacity)
    /\ [][/\ DOMAIN tbBuckets \subseteq DOMAIN tbBuckets'
          /\ \A d \in DOMAIN tbBuckets' : BucketChanges(d) => CallFor(d)]_vars

\* C40 witness: calls for other.com have emptied its bucket and time has
\* passed since, a call for example.com has taken part of its burst, and no
\* call is in progress
C40_Witness ==
    /\ DOMAIN tbBuckets = TbDomains
    /\ tbBuckets["other.com"].tokens = 0
    /\ tbBuckets["other.com"].age > 0
    /\ tbBuckets[ExampleCom].tokens > 0
    /\ tbBuckets[ExampleCom].tokens < tbBuckets[ExampleCom].capacity
    /\ tbHistory = <<>>
    /\ \A w \in TbWaiterIds : tbWaiters[w].pc = "idle"

=============================================================================
